---- MODULE Spec2Model ----
(***************************************************************************)
(* State-machine model of AlloyNodeManager                                 *)
(* (src/alloyai_client/node_manager.py): the per-node inventory cache, the *)
(* in-flight accounting, the scoring function, the selector, the refresh   *)
(* coordinator, the dispatcher with its streaming wrapper, the            *)
(* constructor and the aggregation of models().                            *)
(*                                                                         *)
(* Every block the code runs under `with self._lock` is one atomic action, *)
(* so every state of a behaviour is a state in which no thread holds the   *)
(* manager lock.  Node client calls (inventory fetch, image, chat, audio)  *)
(* run outside the lock; their outcome is chosen when they complete.       *)
(*                                                                         *)
(* Scores are floats in the code; the model keeps them as integers in      *)
(* hundredths (0.01 is 1),   which is exact for every term of the score on  *)
(* the integer inputs enumerated here.                                     *)
(***************************************************************************)
EXTENDS Integers, Sequences, FiniteSets, TLC

\* ------------------------------------------------------------------------
\* Bounds of the model
\* ------------------------------------------------------------------------

\* close() calls a consumer delivers to one wrapped stream after it has
\* already finished.
MaxLateEvents == 1

Nodes == {1, 2}                 \* positions in AlloyNodeManager._nodes
Threads == {"t1", "t2"}         \* caller threads
ModelIds == {"m1", "m2"}
OpKinds == {"image", "chat", "audio"}

\* ------------------------------------------------------------------------
\* Program constants
\* ------------------------------------------------------------------------

\* All score terms are kept in hundredths of a score point (0.01 == 1).
NonConcurrentFactor == 10       \* load_score *= 10.0
PenaltyAllocated == 0           \* 0.0
PenaltyDeallocated == 100       \* 1.0
PenaltyQueue == 400             \* 4.0
PenaltyDefault == 150           \* 1.5
LoadStep == 100                 \* float(active_requests): 1.0 per request
ScarcityStep == 1               \* 0.01 per supported model
WeightStep == 25                \* 0.25 per unit of weight
NodeLoadStep == 10              \* 0.1 per local in-flight call
RemoteLoadStep == 1             \* 0.01 per remote active request

LOCAL_ONLY == "local_only"
QUERY_EVERYTIME == "query_everytime"
CONTROLLED_QUERYING == "controlled_querying"
NodeQueryMode == {LOCAL_ONLY, QUERY_EVERYTIME, CONTROLLED_QUERYING}

ALLOCATED == "allocated"
QUEUE == "queue"
DEALLOCATED == "deallocated"
AllocationStatus == {ALLOCATED, QUEUE, DEALLOCATED}

VARIABLES
    ctor,                 \* frame of AlloyNodeManager.__init__ and its outcome
    mode,                 \* self._mode
    max_nodes_to_query,   \* self._max_nodes_to_query
    weight,               \* node position -> _NodeState.weight
    node_name,            \* node position -> _NodeState.name
    nodes,                \* node position -> mutable fields of _NodeState
    threads               \* caller thread -> position in its current call

vars == <<ctor, mode, max_nodes_to_query, weight, node_name, nodes, threads>>

\* ------------------------------------------------------------------------
\* Dictionaries (Python dict as a function on its key set)
\* ------------------------------------------------------------------------

EmptyDict == [k \in {} |-> 0]

DictGet(d, k, default) == IF k \in DOMAIN d THEN d[k] ELSE default

DictSet(d, k, v) == [x \in (DOMAIN d) \cup {k} |-> IF x = k THEN v ELSE d[x]]

DictPop(d, k) == [x \in (DOMAIN d) \ {k} |-> d[x]]

RECURSIVE SumOver(_, _)
SumOver(d, keys) ==
    IF keys = {} THEN 0
    ELSE LET k == CHOOSE x \in keys : TRUE
         IN  d[k] + SumOver(d, keys \ {k})

DictSum(d) == SumOver(d, DOMAIN d)

\* ------------------------------------------------------------------------
\* Inventory
\* ------------------------------------------------------------------------

IMAGE == "image"
AUDIO == "audio"
VIDEO == "video"
TEXT == "text"
Modality == {TEXT, IMAGE, AUDIO, VIDEO}

ModelCapability(inputs, outputs) == [inputs |-> inputs, outputs |-> outputs]

AlloyModel(model_id, sup, act, conc, st, caps) ==
    [model_id |-> model_id, active_requests |-> act, is_supported |-> sup,
     supports_concurrent_requests |-> conc, capabilities |-> caps,
     allocation_status |-> st]

AlloyModelsResponse(image, audio, video, text) ==
    [image |-> image, audio |-> audio, video |-> video, text |-> text]

\* The (modality, model) pairs of a response in the order _index_models
\* walks them: the lists image, audio, video, text, each front to back.
Tagged(modality, model_list) ==
    [i \in 1..Len(model_list) |-> [modality |-> modality, model |-> model_list[i]]]

GroupedLists(response) ==
    Tagged(IMAGE, response.image) \o Tagged(AUDIO, response.audio)
    \o Tagged(VIDEO, response.video) \o Tagged(TEXT, response.text)

RECURSIVE IndexFrom(_, _, _, _)
IndexFrom(pairs, i, models, categories) ==
    IF i > Len(pairs) THEN [models |-> models, categories |-> categories]
    ELSE LET model == pairs[i].model
             id == model.model_id
             kept == IF id \in DOMAIN models THEN models
                     ELSE DictSet(models, id, model)
             tagged == DictSet(categories, id,
                               DictGet(categories, id, {}) \cup {pairs[i].modality})
             filled == IF kept[id].capabilities = <<>> /\ model.capabilities # <<>>
                       THEN [kept EXCEPT ![id].capabilities = model.capabilities]
                       ELSE kept
         IN  IndexFrom(pairs, i + 1, filled, tagged)

\* Variant: only the list of a model's first entry is recorded.
IndexModelsFirstListOnly(response) ==
    LET pairs == GroupedLists(response)
        indexed == IndexFrom(pairs, 1, EmptyDict, EmptyDict)
        first(id) == CHOOSE i \in DOMAIN pairs :
                        /\ pairs[i].model.model_id = id
                        /\ \A j \in 1..(i - 1) : pairs[j].model.model_id # id
    IN  [indexed EXCEPT !.categories =
            [id \in DOMAIN indexed.models |-> {pairs[first(id)].modality}]]

\* Variant: the lists are walked from text back to image.
IndexModelsTextFirst(response) ==
    IndexFrom(Tagged(TEXT, response.text) \o Tagged(VIDEO, response.video)
              \o Tagged(AUDIO, response.audio) \o Tagged(IMAGE, response.image),
              1, EmptyDict, EmptyDict)

\* _index_models: model_id -> first entry, model_id -> modality lists.
_index_models(response) ==
    IndexFrom(GroupedLists(response), 1, EmptyDict, EmptyDict)

\* _NodeState after construction of the dataclass, before any refresh.
NewNodeState ==
    [models |-> EmptyDict,
     categories_by_model_id |-> EmptyDict,
     supported_model_count |-> 0,
     remote_active_total |-> 0,
     local_inflight_total |-> 0,
     local_inflight_by_model |-> EmptyDict,
     last_refresh_ts |-> 0,
     last_refresh_error |-> "none",
     \* history (not program state): the response of the node's last
     \* successful inventory fetch, as a list of at most one element
     last_response |-> <<>>]

SupportedCount(models) == Cardinality({m \in DOMAIN models : models[m].is_supported})

RECURSIVE SumActive(_, _)
SumActive(models, keys) ==
    IF keys = {} THEN 0
    ELSE LET k == CHOOSE x \in keys : TRUE
         IN  models[k].active_requests + SumActive(models, keys \ {k})

\* time.time() at a refresh: a moment after the epoch.
TimeNow == 1

\* Variant: remote_active_total is not recomputed.
ApplyRefreshSuccessKeepsTotal(node, response) ==
    LET indexed == _index_models(response)
        models == indexed.models
    IN  [node EXCEPT !.models = models,
                     !.categories_by_model_id = indexed.categories,
                     !.supported_model_count = SupportedCount(models),
                     !.last_refresh_ts = TimeNow,
                     !.last_refresh_error = "none",
                     !.last_response = <<response>>]

\* refresh_nodes, success branch (lines 217-228), one node.
ApplyRefreshSuccess(node, response) ==
    LET indexed == _index_models(response)
        models == indexed.models
    IN  [node EXCEPT !.models = models,
                     !.categories_by_model_id = indexed.categories,
                     !.supported_model_count = SupportedCount(models),
                     !.remote_active_total = SumActive(models, DOMAIN models),
                     !.last_refresh_ts = TimeNow,
                     !.last_refresh_error = "none",
                     !.last_response = <<response>>]

\* Variant: a failed fetch also drops what the cache held.
ApplyRefreshFailureDropsCache(node, message) ==
    [node EXCEPT !.models = EmptyDict,
                 !.categories_by_model_id = EmptyDict,
                 !.supported_model_count = 0,
                 !.remote_active_total = 0,
                 !.last_refresh_error = message]

\* Variant: a failed fetch marks the cached entries as unsupported.
ApplyRefreshFailureMarksUnsupported(node, message) ==
    [node EXCEPT !.models = [id \in DOMAIN @ |-> [@[id] EXCEPT !.is_supported = FALSE]],
                 !.supported_model_count = 0,
                 !.last_refresh_error = message]

\* Variant: a failed fetch is stamped like a successful one.
ApplyRefreshFailureStampsTime(node, message) ==
    [node EXCEPT !.last_refresh_ts = TimeNow,
                 !.last_refresh_error = message]

\* refresh_nodes, except branch (lines 212-216), one node.
ApplyRefreshFailure(node, message) ==
    [node EXCEPT !.last_refresh_error = message]

_is_model_supported(node, model_id) ==
    model_id \in DOMAIN node.models /\ node.models[model_id].is_supported

\* ------------------------------------------------------------------------
\* Scoring (AlloyNodeManager._node_score)
\* ------------------------------------------------------------------------

Max(a, b) == IF a >= b THEN a ELSE b
Min(a, b) == IF a <= b THEN a ELSE b

Infinite == [finite |-> FALSE, value |-> 0]       \* float("inf")
Finite(v) == [finite |-> TRUE, value |-> v]

\* a < b on floats, with +inf
ScoreLess(a, b) ==
    /\ a.finite
    /\ (~b.finite \/ a.value < b.value)

status_penalty(status) ==
    CASE status = ALLOCATED -> PenaltyAllocated
      [] status = DEALLOCATED -> PenaltyDeallocated
      [] status = QUEUE -> PenaltyQueue
      [] OTHER -> PenaltyDefault

\* Variant: an entry is scored whether or not it is marked supported.
ScoreIgnoresSupport(node, w, model_id) ==
    IF ~(model_id \in DOMAIN node.models)
    THEN Infinite
    ELSE LET model == node.models[model_id]
             active_requests ==
                 model.active_requests
                 + DictGet(node.local_inflight_by_model, model_id, 0)
             load_score ==
                 IF model.supports_concurrent_requests
                 THEN active_requests * LoadStep
                 ELSE active_requests * LoadStep * NonConcurrentFactor
         IN  Finite(load_score + status_penalty(model.allocation_status)
                    + Max(node.supported_model_count, 1) * ScarcityStep
                    + node.local_inflight_total * NodeLoadStep
                    + node.remote_active_total * RemoteLoadStep
                    - Max(w, 0) * WeightStep)

\* Variant: the load reported by the backend is left out of the score.
ScoreFromLocalLoadOnly(node, w, model_id) ==
    IF ~(model_id \in DOMAIN node.models /\ node.models[model_id].is_supported)
    THEN Infinite
    ELSE LET model == node.models[model_id]
             active_requests ==
                 DictGet(node.local_inflight_by_model, model_id, 0)
             load_score ==
                 IF model.supports_concurrent_requests
                 THEN active_requests * LoadStep
                 ELSE active_requests * LoadStep * NonConcurrentFactor
         IN  Finite(load_score + status_penalty(model.allocation_status)
                    + Max(node.supported_model_count, 1) * ScarcityStep
                    + node.local_inflight_total * NodeLoadStep
                    - Max(w, 0) * WeightStep)

\* Variant: the load of a non-concurrent model is not multiplied.
ScoreWithoutConcurrencyFactor(node, w, model_id) ==
    IF ~(model_id \in DOMAIN node.models /\ node.models[model_id].is_supported)
    THEN Infinite
    ELSE LET model == node.models[model_id]
             active_requests ==
                 model.active_requests
                 + DictGet(node.local_inflight_by_model, model_id, 0)
         IN  Finite(active_requests * LoadStep
                    + status_penalty(model.allocation_status)
                    + Max(node.supported_model_count, 1) * ScarcityStep
                    + node.local_inflight_total * NodeLoadStep
                    + node.remote_active_total * RemoteLoadStep
                    - Max(w, 0) * WeightStep)

\* Variant: the supported-model count does not enter the score.
ScoreWithoutScarcity(node, w, model_id) ==
    IF ~(model_id \in DOMAIN node.models /\ node.models[model_id].is_supported)
    THEN Infinite
    ELSE LET model == node.models[model_id]
             remote_active == model.active_requests
             local_active_model == DictGet(node.local_inflight_by_model, model_id, 0)
             active_requests == remote_active + local_active_model
             load_score ==
                 IF model.supports_concurrent_requests
                 THEN active_requests * LoadStep
                 ELSE active_requests * LoadStep * NonConcurrentFactor
             weight_bias == 0 - Max(w, 0) * WeightStep
             node_load_bias == node.local_inflight_total * NodeLoadStep
             remote_load_bias == node.remote_active_total * RemoteLoadStep
         IN  Finite(load_score + status_penalty(model.allocation_status)
                    + node_load_bias + remote_load_bias + weight_bias)

\* Variant: the weight is not clamped at zero.
ScoreWeightUnclamped(node, w, model_id) ==
    IF ~(model_id \in DOMAIN node.models /\ node.models[model_id].is_supported)
    THEN Infinite
    ELSE LET model == node.models[model_id]
             remote_active == model.active_requests
             local_active_model == DictGet(node.local_inflight_by_model, model_id, 0)
             active_requests == remote_active + local_active_model
             load_score ==
                 IF model.supports_concurrent_requests
                 THEN active_requests * LoadStep
                 ELSE active_requests * LoadStep * NonConcurrentFactor
             scarcity_bias == Max(node.supported_model_count, 1) * ScarcityStep
             weight_bias == 0 - w * WeightStep
             node_load_bias == node.local_inflight_total * NodeLoadStep
             remote_load_bias == node.remote_active_total * RemoteLoadStep
         IN  Finite(load_score + status_penalty(model.allocation_status)
                    + scarcity_bias + node_load_bias + remote_load_bias
                    + weight_bias)

_node_score(node, w, model_id) ==
    IF ~(model_id \in DOMAIN node.models /\ node.models[model_id].is_supported)
    THEN Infinite
    ELSE LET model == node.models[model_id]
             remote_active == model.active_requests
             local_active_model == DictGet(node.local_inflight_by_model, model_id, 0)
             active_requests == remote_active + local_active_model
             load_score ==
                 IF model.supports_concurrent_requests
                 THEN active_requests * LoadStep
                 ELSE active_requests * LoadStep * NonConcurrentFactor
             scarcity_bias == Max(node.supported_model_count, 1) * ScarcityStep
             weight_bias == 0 - Max(w, 0) * WeightStep
             node_load_bias == node.local_inflight_total * NodeLoadStep
             remote_load_bias == node.remote_active_total * RemoteLoadStep
         IN  Finite(load_score + status_penalty(model.allocation_status)
                    + scarcity_bias + node_load_bias + remote_load_bias
                    + weight_bias)

\* ------------------------------------------------------------------------
\* Selection helpers
\* ------------------------------------------------------------------------

\* [node for node in self._nodes if _is_model_supported(node, model_id)]:
\* the candidates as a list in the order of self._nodes.
RECURSIVE CandidatesFrom(_, _, _)
CandidatesFrom(ns, model_id, i) ==
    IF i > Cardinality(Nodes) THEN <<>>
    ELSE (IF _is_model_supported(ns[i], model_id) THEN <<i>> ELSE <<>>)
         \o CandidatesFrom(ns, model_id, i + 1)

Candidates(ns, model_id) == CandidatesFrom(ns, model_id, 1)

SeqToSet(s) == {s[i] : i \in DOMAIN s}

\* Python min(iterable, key=...): the first element is kept until a
\* strictly smaller key is met.
RECURSIVE MinScan(_, _, _, _, _, _)
MinScan(cands, ns, ws, model_id, i, best) ==
    IF i > Len(cands) THEN best
    ELSE IF ScoreLess(_node_score(ns[cands[i]], ws[cands[i]], model_id),
                      _node_score(ns[best], ws[best], model_id))
         THEN MinScan(cands, ns, ws, model_id, i + 1, cands[i])
         ELSE MinScan(cands, ns, ws, model_id, i + 1, best)

\* Variant: a later element replaces the kept one also on an equal key.
RECURSIVE MinScanLastWins(_, _, _, _, _, _)
MinScanLastWins(cands, ns, ws, model_id, i, best) ==
    IF i > Len(cands) THEN best
    ELSE IF ~ScoreLess(_node_score(ns[best], ws[best], model_id),
                       _node_score(ns[cands[i]], ws[cands[i]], model_id))
         THEN MinScanLastWins(cands, ns, ws, model_id, i + 1, cands[i])
         ELSE MinScanLastWins(cands, ns, ws, model_id, i + 1, best)

MinByScoreLastWins(cands, ns, ws, model_id) ==
    MinScanLastWins(cands, ns, ws, model_id, 2, cands[1])

MinByScore(cands, ns, ws, model_id) == MinScan(cands, ns, ws, model_id, 2, cands[1])

\* Python sorted(candidates, key=...): stable, ascending.  Insertion of each
\* element after the last element that is not greater keeps equal keys in
\* their original order.
RECURSIVE InsertSorted(_, _, _, _, _)
InsertSorted(sorted, n, ns, ws, model_id) ==
    IF sorted = <<>> THEN <<n>>
    ELSE IF ScoreLess(_node_score(ns[n], ws[n], model_id),
                      _node_score(ns[Head(sorted)], ws[Head(sorted)], model_id))
         THEN <<n>> \o sorted
         ELSE <<Head(sorted)>> \o InsertSorted(Tail(sorted), n, ns, ws, model_id)

RECURSIVE SortedByScore(_, _, _, _, _)
SortedByScore(cands, ns, ws, model_id, i) ==
    IF i = 0 THEN <<>>
    ELSE InsertSorted(SortedByScore(cands, ns, ws, model_id, i - 1),
                      cands[i], ns, ws, model_id)

\* Variant: the candidates are cut in list order, without the ranking.
ToQueryUnranked(cands, ns, ws, model_id, maxq) ==
    SubSeq(cands, 1, Min(maxq, Len(cands)))

\* ranked[: min(self._max_nodes_to_query, len(ranked))]
ToQuery(cands, ns, ws, model_id, maxq) ==
    SubSeq(SortedByScore(cands, ns, ws, model_id, Len(cands)),
           1, Min(maxq, Len(cands)))

\* ------------------------------------------------------------------------
\* In-flight accounting
\* ------------------------------------------------------------------------

\* Variant: the per-model entry is not updated.
IncrementTotalOnly(node, model_id) ==
    [node EXCEPT !.local_inflight_total = @ + 1]

_increment_inflight(node, model_id) ==
    [node EXCEPT
       !.local_inflight_total = @ + 1,
       !.local_inflight_by_model =
           DictSet(@, model_id, DictGet(@, model_id, 0) + 1)]

\* Variant: the entry is removed only once it is already 0.
DecrementKeepsZero(node, model_id) ==
    LET active == DictGet(node.local_inflight_by_model, model_id, 0)
    IN  [node EXCEPT
           !.local_inflight_total = IF @ > 0 THEN @ - 1 ELSE @,
           !.local_inflight_by_model =
               IF active <= 0 THEN DictPop(@, model_id)
               ELSE DictSet(@, model_id, active - 1)]

\* Variant: local_inflight_total is lowered without the test for zero.
DecrementUnsaturated(node, model_id) ==
    LET active == DictGet(node.local_inflight_by_model, model_id, 0)
    IN  [node EXCEPT
           !.local_inflight_total = @ - 1,
           !.local_inflight_by_model =
               IF active <= 1 THEN DictPop(@, model_id)
               ELSE DictSet(@, model_id, active - 1)]

_decrement_inflight(node, model_id) ==
    LET active == DictGet(node.local_inflight_by_model, model_id, 0)
    IN  [node EXCEPT
           !.local_inflight_total = IF @ > 0 THEN @ - 1 ELSE @,
           !.local_inflight_by_model =
               IF active <= 1 THEN DictPop(@, model_id)
               ELSE DictSet(@, model_id, active - 1)]

\* ------------------------------------------------------------------------
\* Backends (node clients)
\* ------------------------------------------------------------------------

TextToImage == <<ModelCapability({TEXT}, {IMAGE})>>
TextToText == <<ModelCapability({TEXT}, {TEXT})>>

\* Inventories a backend answers an inventory fetch with: m1 idle and m2
\* busy, or m1 listed as unsupported and m2 not listed.
BackendResponses ==
    { AlloyModelsResponse(
          <<AlloyModel("m1", TRUE, 0, TRUE, ALLOCATED, TextToImage)>>, <<>>, <<>>,
          <<AlloyModel("m2", TRUE, 1, FALSE, DEALLOCATED, TextToText)>>),
      AlloyModelsResponse(
          <<AlloyModel("m1", FALSE, 0, FALSE, DEALLOCATED, TextToImage)>>,
          <<>>, <<>>, <<>>) }

FetchError == "fetch failed"    \* str(exc) of a failed inventory fetch

\* f"node-{index}" for the node at list position n (index = n - 1).
DefaultName(n) ==
    CASE n = 1 -> "node-0"
      [] n = 2 -> "node-1"

\* _NodeState.name of the node at list position n.
NodeName(n) == node_name[n]

\* refresh_nodes lines 196-199: the target nodes of a refresh.  node_names
\* empty or None selects every node of node_map.
SelectedNodes(node_names) ==
    LET node_map == [name \in {NodeName(n) : n \in Nodes} |->
                        CHOOSE n \in Nodes : NodeName(n) = name
                             /\ \A k \in Nodes : NodeName(k) = name => k <= n]
        selected_names == IF node_names = {} THEN DOMAIN node_map ELSE node_names
    IN  {node_map[name] : name \in (DOMAIN node_map) \cap selected_names}

\* ------------------------------------------------------------------------
\* Streaming wrapper (AlloyNodeManager._wrap_stream_result), a generator:
\*   "unstarted" - created, body not entered (no try block is active yet)
\*   "suspended" - stopped at `yield item` inside the try block
\*   "finished"  - body left, or closed before it was ever entered
\* The result tells the next generator state and whether the finally
\* block (the release of the counters) runs.
\* ------------------------------------------------------------------------

\* Variant: close() releases whenever it is called.
WrapReleasesOnEveryClose(gen, event) ==
    CASE event = "item" -> [gen |-> "suspended", release |-> FALSE]
      [] event \in {"exhausted", "error"} -> [gen |-> "finished", release |-> TRUE]
      [] event = "close" -> [gen |-> "finished", release |-> TRUE]

_wrap_stream_result(gen, event) ==
    CASE event = "item" ->
           \* next(): the underlying sequence yields an item
           [gen |-> "suspended", release |-> FALSE]
      [] event \in {"exhausted", "error"} ->
           \* next(): the underlying sequence ends or raises -> finally runs
           [gen |-> "finished", release |-> TRUE]
      [] event = "close" ->
           \* close() or drop: GeneratorExit is raised at the yield only if
           \* the body was entered; an unstarted generator is just marked
           \* finished and no code of it runs
           [gen |-> "finished", release |-> (gen = "suspended")]

\* ------------------------------------------------------------------------
\* Caller threads
\* ------------------------------------------------------------------------

\* A thread between calls; outcome tells how its last call ended.
IdleThread(outcome) ==
    [pc |-> "idle", model_id |-> "m1",
     node |-> 0,           \* chosen node (0: none yet)
     cands |-> <<>>,       \* local `candidates` kept for the ranking
     node_names |-> <<>>,  \* refresh_nodes: <<node_names>> until line 199
     pending |-> {},       \* refresh_nodes: fetches not yet applied
     ret |-> "idle",       \* where refresh_nodes returns to
     errors |-> EmptyDict, \* refresh_nodes: `errors`, node name -> message
     \* refresh_nodes: the completed futures, node -> what the backend
     \* answered and in which order (filled only where the completion of a
     \* fetch and its handling are separate steps)
     answered |-> EmptyDict,
     \* the thread owns self._lock (set only where taking the lock and the
     \* locked block are separate steps)
     holds |-> FALSE,
     result |-> <<>>,      \* models(): <<the aggregation about to be returned>>
     gen |-> "none",       \* state of the wrapped stream
     outcome |-> outcome,
     \* history of a routed call (not program state): inventory fetches it
     \* has submitted per node, and whether its first collection was empty
     fetches |-> [n \in Nodes |-> 0], forced |-> FALSE,
     \* history of a stream (not program state)
     releases |-> 0, first_end |-> "none", late |-> 0]

\* Frame of _dispatch(model_id=..., stream=..., invoke=...) on entry.  The
\* operation kind and the stream flag are bound in the `invoke` closure and
\* are not read before the closure is called (lines 241, 246), so they are
\* inputs of the Invoke actions.
NewCall(model_id) ==
    [IdleThread("none") EXCEPT !.pc = "sel_collect", !.model_id = model_id]

\* A thread makes its next call when it is between calls or has seen its
\* stream end.  A thread whose stream finished without a release of the
\* counters makes no further call: every such stream leaves the counters
\* one higher for good, and this keeps them bounded by the number of
\* threads.
Free(t) ==
    \/ threads[t].pc = "idle"
    \/ /\ threads[t].pc = "stream"
       /\ threads[t].gen = "finished"
       /\ threads[t].releases > 0

\* refresh_nodes returns `errors` (lines 201, 229).  A direct caller has the
\* returned map in hand; the selector drops it at once (lines 269, 276,
\* 280).
ReturnFromRefresh(th) ==
    LET back == [th EXCEPT !.pc = th.ret, !.pending = {}, !.node_names = <<>>]
    IN  CASE th.ret = "idle" -> [back EXCEPT !.pc = "refresh_return"]
          [] th.ret \in {"sel_recollect", "sel_pick"} ->
               [back EXCEPT !.errors = EmptyDict]
          [] OTHER -> back

\* Start of refresh_nodes(node_names=names) on behalf of thread record th
\* (lines 195-207): one fetch is submitted per selected node; it returns at
\* once when no node is selected.
StartRefresh(th, names, ret) ==
    LET selected == SelectedNodes(names)
    IN  IF selected = {}
        THEN ReturnFromRefresh([th EXCEPT !.ret = ret, !.errors = EmptyDict])
        ELSE [th EXCEPT !.pc = "refresh", !.pending = selected, !.ret = ret,
                        !.node_names = <<names>>,
                        !.errors = EmptyDict,
                        !.fetches = [n \in Nodes |->
                                       IF n \in selected THEN @[n] + 1 ELSE @[n]]]

\* A name that no node has.
UnknownName == "no-such-node"

\* refresh_nodes(node_names=...) called directly by a caller thread.
RefreshCall(t) ==
    /\ Free(t)
    /\ \E names \in SUBSET ({NodeName(n) : n \in Nodes} \cup {UnknownName}) :
         threads' = [threads EXCEPT ![t] =
                        StartRefresh(IdleThread("none"), names, "idle")]
    /\ UNCHANGED <<ctor, mode, max_nodes_to_query, weight, node_name, nodes>>

\* The direct caller of refresh_nodes has received the map.
RefreshReturn(t) ==
    /\ threads[t].pc = "refresh_return"
    /\ threads' = [threads EXCEPT ![t] = IdleThread("none")]
    /\ UNCHANGED <<ctor, mode, max_nodes_to_query, weight, node_name, nodes>>

\* Variant: refresh_nodes returns as soon as one fetch has been handled.
AfterFetchReturnsEarly(th, n) == ReturnFromRefresh(th)

\* The frame of refresh_nodes once the fetch of node n has been handled:
\* refresh_nodes returns after the last one.
AfterFetch(th, n) ==
    IF th.pending = {n} THEN ReturnFromRefresh(th)
    ELSE [th EXCEPT !.pending = @ \ {n}, !.node_names = <<>>]

\* One fetch of a running refresh_nodes completes and its result is applied
\* under the lock (lines 208-228).
RefreshStep(t, responses) ==
    /\ threads[t].pc = "refresh"
    /\ \E n \in threads[t].pending :
             \/ /\ \E response \in responses :
                     nodes' = [nodes EXCEPT ![n] = ApplyRefreshSuccess(@, response)]
                /\ threads' = [threads EXCEPT ![t] = AfterFetch(@, n)]
             \/ /\ nodes' = [nodes EXCEPT ![n] = ApplyRefreshFailure(@, FetchError)]
                /\ threads' = [threads EXCEPT ![t] =
                       AfterFetch([@ EXCEPT !.errors =
                                      DictSet(@, NodeName(n), FetchError)], n)]
    /\ UNCHANGED <<ctor, mode, max_nodes_to_query, weight, node_name>>

RefreshApply(t) == RefreshStep(t, BackendResponses)

\* _select_node_for_model lines 275-280, entered with a non-empty candidate
\* list.  LOCAL_ONLY and QUERY_EVERYTIME use only the thread's own list;
\* the ranking of CONTROLLED_QUERYING reads the node states after the lock
\* has been released, so it is a step of its own (SelRank).
\* Variant: QUERY_EVERYTIME refreshes every node.
AfterCandidatesRefreshesAll(th, candidates) ==
    CASE mode = QUERY_EVERYTIME ->
           StartRefresh([th EXCEPT !.cands = candidates], {}, "sel_pick")
      [] mode = CONTROLLED_QUERYING ->
           [th EXCEPT !.pc = "sel_rank", !.cands = candidates]
      [] OTHER -> [th EXCEPT !.pc = "sel_pick", !.cands = candidates]

\* Variant: LOCAL_ONLY refreshes the candidates as QUERY_EVERYTIME does.
AfterCandidatesLocalRefreshes(th, candidates) ==
    CASE mode = CONTROLLED_QUERYING ->
           [th EXCEPT !.pc = "sel_rank", !.cands = candidates]
      [] OTHER ->
           StartRefresh([th EXCEPT !.cands = candidates],
                        {NodeName(n) : n \in SeqToSet(candidates)}, "sel_pick")

AfterCandidates(th, candidates) ==
    CASE mode = QUERY_EVERYTIME ->
           StartRefresh([th EXCEPT !.cands = candidates],
                        {NodeName(n) : n \in SeqToSet(candidates)}, "sel_pick")
      [] mode = CONTROLLED_QUERYING ->
           [th EXCEPT !.pc = "sel_rank", !.cands = candidates]
      [] OTHER -> [th EXCEPT !.pc = "sel_pick", !.cands = candidates]

\* Variant: an empty first collection fails at once, without the refresh.
StartCallFailsFast(t) ==
    /\ Free(t)
    /\ \E model_id \in ModelIds :
         LET th == NewCall(model_id)
             candidates == Candidates(nodes, model_id)
         IN  threads' = [threads EXCEPT ![t] =
                 IF candidates = <<>>
                 THEN IdleThread("NoCandidate")
                 ELSE AfterCandidates(th, candidates)]
    /\ UNCHANGED <<ctor, mode, max_nodes_to_query, weight, node_name, nodes>>

\* image()/chat()/audio() entered: _dispatch calls the selector, whose
\* first locked step collects the candidates (lines 238, 265-269).
StartCall(t) ==
    /\ Free(t)
    /\ \E model_id \in ModelIds :
         LET th == NewCall(model_id)
             candidates == Candidates(nodes, model_id)
         IN  threads' = [threads EXCEPT ![t] =
                 IF candidates = <<>>
                 THEN StartRefresh([th EXCEPT !.forced = TRUE], {},
                                   "sel_recollect")
                 ELSE AfterCandidates(th, candidates)]
    /\ UNCHANGED <<ctor, mode, max_nodes_to_query, weight, node_name, nodes>>

\* _select_node_for_model lines 270-273.
SelRecollect(t) ==
    /\ threads[t].pc = "sel_recollect"
    /\ LET candidates == Candidates(nodes, threads[t].model_id)
       IN  threads' = [threads EXCEPT ![t] =
               IF candidates = <<>>
               THEN IdleThread("NoCandidate")
               ELSE AfterCandidates(@, candidates)]
    /\ UNCHANGED <<ctor, mode, max_nodes_to_query, weight, node_name, nodes>>

\* _select_node_for_model lines 278-280 (CONTROLLED_QUERYING).
SelRank(t) ==
    /\ threads[t].pc = "sel_rank"
    /\ LET th == threads[t]
           to_query == ToQuery(th.cands, nodes, weight, th.model_id,
                               max_nodes_to_query)
       IN  threads' = [threads EXCEPT ![t] =
               StartRefresh(th, {NodeName(n) : n \in SeqToSet(to_query)},
                            "sel_pick")]
    /\ UNCHANGED <<ctor, mode, max_nodes_to_query, weight, node_name, nodes>>

\* The ranking reads the fields of each candidate without the lock (lines
\* 278, 290-313), in the order models, local_inflight_by_model,
\* supported_model_count, local_inflight_total, remote_active_total.  When
\* the locked block of another thread writes a candidate in the meantime,
\* each read returns the value before or after that block's assignment.

\* A refresh assigns models, supported_model_count and remote_active_total
\* one after the other (lines 219-226): the reader can get any mix.
RefreshTornViews(old, new) ==
    {[old EXCEPT !.models = m, !.supported_model_count = c,
                 !.remote_active_total = a] :
        m \in {old.models, new.models},
        c \in {old.supported_model_count, new.supported_model_count},
        a \in {old.remote_active_total, new.remote_active_total}}

\* _increment_inflight and _decrement_inflight assign local_inflight_total
\* before local_inflight_by_model (lines 319-322, 326-332): the reader, who
\* reads them in the opposite order, can get the new total with the old
\* entry.
CounterTornViews(old, new) ==
    {[old EXCEPT !.local_inflight_total = new.local_inflight_total]}

\* The locked blocks that other threads are about to run: the node written,
\* its fields after the block, the writer's record after it, and what a
\* reader without the lock can see of the node during the block.
RacingWrites(t) ==
    LET others == Threads \ {t}
        Write(u, n, new, then, seen) ==
            [thread |-> u, node |-> n, new |-> new, then |-> then, seen |-> seen]
    IN  UNION {
          IF threads[u].pc = "refresh"
          THEN {Write(u, n, ApplyRefreshSuccess(nodes[n], r),
                      AfterFetch(threads[u], n),
                      RefreshTornViews(nodes[n], ApplyRefreshSuccess(nodes[n], r))) :
                   n \in threads[u].pending, r \in BackendResponses}
          ELSE IF threads[u].pc = "picked"
          THEN LET n == threads[u].node
                   new == _increment_inflight(nodes[n], threads[u].model_id)
               IN  {Write(u, n, new, [threads[u] EXCEPT !.pc = "invoking"],
                          CounterTornViews(nodes[n], new))}
          ELSE IF threads[u].pc = "invoking"
          THEN LET n == threads[u].node
                   new == _decrement_inflight(nodes[n], threads[u].model_id)
               IN  {Write(u, n, new, IdleThread(outcome),
                          CounterTornViews(nodes[n], new)) :
                       outcome \in {"returned", "BackendError"}}
          ELSE {} : u \in others}

\* _select_node_for_model lines 278-280 run while another thread's locked
\* block writes one of the candidates: the ranking uses what it read of
\* that node, and the block completes.
SelRankTorn(t) ==
    /\ threads[t].pc = "sel_rank"
    /\ \E w \in RacingWrites(t) :
         /\ w.node \in SeqToSet(threads[t].cands)
         /\ nodes' = [nodes EXCEPT ![w.node] = w.new]
         /\ \E view \in w.seen :
              LET th == threads[t]
                  to_query == ToQuery(th.cands, [nodes EXCEPT ![w.node] = view],
                                      weight, th.model_id, max_nodes_to_query)
              IN  threads' = [threads EXCEPT
                     ![t] = StartRefresh(th, {NodeName(n) : n \in SeqToSet(to_query)},
                                         "sel_pick"),
                     ![w.thread] = w.then]
    /\ UNCHANGED <<ctor, mode, max_nodes_to_query, weight, node_name>>

\* _select_node_for_model lines 282-287: the final locked step.
SelPick(t) ==
    /\ threads[t].pc = "sel_pick"
    /\ LET candidates == Candidates(nodes, threads[t].model_id)
       IN  threads' = [threads EXCEPT ![t] =
               IF candidates = <<>>
               THEN IdleThread("NoCandidate")
               ELSE [NewCall(threads[t].model_id) EXCEPT
                       !.pc = "picked",
                       !.node = MinByScore(candidates, nodes, weight,
                                           threads[t].model_id)]]
    /\ UNCHANGED <<ctor, mode, max_nodes_to_query, weight, node_name, nodes>>

\* Variant: the operation is invoked without counting the call.
IncrementSkipped(t) ==
    /\ threads[t].pc = "picked"
    /\ threads' = [threads EXCEPT ![t] = [@ EXCEPT !.pc = "invoking"]]
    /\ UNCHANGED <<ctor, mode, max_nodes_to_query, weight, node_name, nodes>>

\* _dispatch line 239.
Increment(t) ==
    /\ threads[t].pc = "picked"
    /\ nodes' = [nodes EXCEPT ![threads[t].node] =
                    _increment_inflight(@, threads[t].model_id)]
    /\ threads' = [threads EXCEPT ![t] = [@ EXCEPT !.pc = "invoking"]]
    /\ UNCHANGED <<ctor, mode, max_nodes_to_query, weight, node_name>>

\* Variant: the error is passed on without releasing the counters.
InvokeRaisesNoRelease(t) ==
    /\ threads[t].pc = "invoking"
    /\ threads' = [threads EXCEPT ![t] = IdleThread("BackendError")]
    /\ UNCHANGED <<ctor, mode, max_nodes_to_query, weight, node_name, nodes>>

\* _dispatch lines 240-244: the node client operation raises (any
\* operation can; chat and audio always do for stream=true).
InvokeRaises(t) ==
    /\ threads[t].pc = "invoking"
    /\ nodes' = [nodes EXCEPT ![threads[t].node] =
                    _decrement_inflight(@, threads[t].model_id)]
    /\ threads' = [threads EXCEPT ![t] = IdleThread("BackendError")]
    /\ UNCHANGED <<ctor, mode, max_nodes_to_query, weight, node_name>>

\* _dispatch lines 240-244 with AlloyClient.chat / AlloyClient.audio called
\* for stream=true: the node client operation raises its "streaming is not
\* supported" error before it sends anything.
InvokeRaisesStreamingUnsupported(t) ==
    /\ threads[t].pc = "invoking"
    /\ \E op \in OpKinds, stream \in BOOLEAN : stream /\ op \in {"chat", "audio"}
    /\ nodes' = [nodes EXCEPT ![threads[t].node] =
                    _decrement_inflight(@, threads[t].model_id)]
    /\ threads' = [threads EXCEPT ![t] = IdleThread("StreamingUnsupported")]
    /\ UNCHANGED <<ctor, mode, max_nodes_to_query, weight, node_name>>

\* Variant: the counters are released while the operation is still running.
InvokeReleasesDuringCall(t) ==
    /\ threads[t].pc = "invoking"
    /\ threads[t].outcome = "none"
    /\ nodes' = [nodes EXCEPT ![threads[t].node] =
                    _decrement_inflight(@, threads[t].model_id)]
    /\ threads' = [threads EXCEPT ![t] = [@ EXCEPT !.outcome = "returned"]]
    /\ UNCHANGED <<ctor, mode, max_nodes_to_query, weight, node_name>>

\* _dispatch lines 241, 249-250: the operation returns a plain result.
\* (AlloyClient returns a mapping exactly when stream is false.)
InvokeReturns(t) ==
    /\ threads[t].pc = "invoking"
    /\ \E op \in OpKinds, stream \in BOOLEAN : ~stream
    /\ nodes' = [nodes EXCEPT ![threads[t].node] =
                    _decrement_inflight(@, threads[t].model_id)]
    /\ threads' = [threads EXCEPT ![t] = IdleThread("returned")]
    /\ UNCHANGED <<ctor, mode, max_nodes_to_query, weight, node_name>>

\* Variant: the counters are released when the wrapped stream is returned.
InvokeStreamsReleasesEarly(t) ==
    /\ threads[t].pc = "invoking"
    /\ \E op \in OpKinds, stream \in BOOLEAN : stream /\ op = "image"
    /\ nodes' = [nodes EXCEPT ![threads[t].node] =
                    _decrement_inflight(@, threads[t].model_id)]
    /\ threads' = [threads EXCEPT ![t] =
                    [@ EXCEPT !.pc = "stream", !.outcome = "stream",
                              !.gen = "unstarted"]]
    /\ UNCHANGED <<ctor, mode, max_nodes_to_query, weight, node_name>>

\* _dispatch lines 241, 246-247: the operation returns an iterator, which is
\* handed to the caller wrapped.  (AlloyClient.image returns a generator for
\* stream=true; chat and audio raise for stream=true.)
InvokeStreams(t) ==
    /\ threads[t].pc = "invoking"
    /\ \E op \in OpKinds, stream \in BOOLEAN : stream /\ op = "image"
    /\ threads' = [threads EXCEPT ![t] =
                    [@ EXCEPT !.pc = "stream", !.outcome = "stream",
                              !.gen = "unstarted"]]
    /\ UNCHANGED <<ctor, mode, max_nodes_to_query, weight, node_name, nodes>>

\* The consumer delivers an event to the wrapped stream of thread t.
StreamStep(t, event) ==
    LET th == threads[t]
        r == _wrap_stream_result(th.gen, event)
    IN  /\ th.pc = "stream"
        /\ th.gen \in {"unstarted", "suspended"}
        /\ nodes' = IF r.release
                    THEN [nodes EXCEPT ![th.node] =
                             _decrement_inflight(@, th.model_id)]
                    ELSE nodes
        /\ threads' = [threads EXCEPT ![t] =
                        [@ EXCEPT !.gen = r.gen,
                                  !.first_end = IF r.gen = "finished"
                                                THEN event ELSE @,
                                  !.releases = IF r.release THEN @ + 1 ELSE @]]
        /\ UNCHANGED <<ctor, mode, max_nodes_to_query, weight, node_name>>

StreamNextItem(t) == StreamStep(t, "item")
StreamNextEnd(t) == StreamStep(t, "exhausted")
StreamNextError(t) == StreamStep(t, "error")
StreamClose(t) == StreamStep(t, "close")

\* close() on a stream that has already finished.
StreamLateClose(t) ==
    LET th == threads[t]
        r == _wrap_stream_result(th.gen, "close")
    IN  /\ th.pc = "stream"
        /\ th.gen = "finished"
        /\ th.late < MaxLateEvents
        /\ nodes' = IF r.release
                    THEN [nodes EXCEPT ![th.node] =
                             _decrement_inflight(@, th.model_id)]
                    ELSE nodes
        /\ threads' = [threads EXCEPT ![t] =
                        [@ EXCEPT !.gen = r.gen, !.late = @ + 1,
                                  !.releases = IF r.release THEN @ + 1 ELSE @]]
        /\ UNCHANGED <<ctor, mode, max_nodes_to_query, weight, node_name>>

\* ------------------------------------------------------------------------
\* models(): refresh of all nodes, then the aggregation of the caches
\* (AlloyNodeManager._combined_models_response)
\* ------------------------------------------------------------------------

\* Variant: the active requests of further nodes are not added.
MergeModelKeepsActive(existing, model) ==
    [existing EXCEPT
       !.is_supported = @ \/ model.is_supported,
       !.supports_concurrent_requests = @ \/ model.supports_concurrent_requests,
       !.allocation_status =
           IF @ # ALLOCATED /\ model.allocation_status = ALLOCATED THEN ALLOCATED
           ELSE IF @ = DEALLOCATED /\ model.allocation_status = QUEUE THEN QUEUE
           ELSE @,
       !.capabilities = IF @ = <<>> /\ model.capabilities # <<>>
                        THEN model.capabilities ELSE @]

\* Variant: the status of the first node that lists the model is kept.
MergeModelKeepsStatus(existing, model) ==
    [existing EXCEPT
       !.active_requests = @ + model.active_requests,
       !.is_supported = @ \/ model.is_supported,
       !.supports_concurrent_requests = @ \/ model.supports_concurrent_requests,
       !.capabilities = IF @ = <<>> /\ model.capabilities # <<>>
                        THEN model.capabilities ELSE @]

\* Lines 348-364: a further node's entry is merged into the summary entry.
MergeModel(existing, model) ==
    [existing EXCEPT
       !.active_requests = @ + model.active_requests,
       !.is_supported = @ \/ model.is_supported,
       !.supports_concurrent_requests = @ \/ model.supports_concurrent_requests,
       !.allocation_status =
           IF @ # ALLOCATED /\ model.allocation_status = ALLOCATED THEN ALLOCATED
           ELSE IF @ = DEALLOCATED /\ model.allocation_status = QUEUE THEN QUEUE
           ELSE @,
       !.capabilities = IF @ = <<>> /\ model.capabilities # <<>>
                        THEN model.capabilities ELSE @]

\* model_summary after the nodes 1..i have been walked in list order.
RECURSIVE ModelSummary(_, _)
ModelSummary(ns, i) ==
    IF i = 0 THEN EmptyDict
    ELSE LET before == ModelSummary(ns, i - 1)
             here == ns[i].models
         IN  [id \in (DOMAIN before) \cup (DOMAIN here) |->
                IF id \notin DOMAIN before THEN here[id]
                ELSE IF id \notin DOMAIN here THEN before[id]
                ELSE MergeModel(before[id], here[id])]

\* categories after all nodes have been walked (lines 341-343).
SummaryCategories(ns, id) ==
    UNION {DictGet(ns[n].categories_by_model_id, id, {}) :
              n \in {k \in Nodes : id \in DOMAIN ns[k].models}}

\* Output modalities of a model's capabilities (lines 375-379).
CapabilityOutputs(capabilities) ==
    UNION {capabilities[i].outputs : i \in DOMAIN capabilities}

\* Model ids in ascending order (the sort key of line 385).
ModelIdOrder == <<"m1", "m2">>

\* grouped[modality], sorted by model_id (lines 372-385).
RECURSIVE GroupedSorted(_, _, _, _)
GroupedSorted(summary, ns, modality, i) ==
    IF i > Len(ModelIdOrder) THEN <<>>
    ELSE LET id == ModelIdOrder[i]
             cats == IF id \notin DOMAIN summary THEN {}
                     ELSE IF SummaryCategories(ns, id) = {}
                          THEN CapabilityOutputs(summary[id].capabilities)
                          ELSE SummaryCategories(ns, id)
         IN  (IF modality \in cats THEN <<summary[id]>> ELSE <<>>)
             \o GroupedSorted(summary, ns, modality, i + 1)

_combined_models_response(ns) ==
    LET summary == ModelSummary(ns, Cardinality(Nodes))
    IN  AlloyModelsResponse(GroupedSorted(summary, ns, IMAGE, 1),
                            GroupedSorted(summary, ns, AUDIO, 1),
                            GroupedSorted(summary, ns, VIDEO, 1),
                            GroupedSorted(summary, ns, TEXT, 1))

\* models() line 186: refresh of all nodes.
ModelsCall(t) ==
    /\ Free(t)
    /\ threads' = [threads EXCEPT ![t] =
                      StartRefresh(IdleThread("none"), {}, "models_combine")]
    /\ UNCHANGED <<ctor, mode, max_nodes_to_query, weight, node_name, nodes>>

\* Variant: the summary takes the first holder's cached entry itself, not a
\* copy, and merges the other nodes' entries into it.
ModelsCombineInPlace(t) ==
    /\ threads[t].pc = "models_combine"
    /\ LET summary == ModelSummary(nodes, Cardinality(Nodes))
           FirstHolder(id) ==
               CHOOSE n \in Nodes :
                  /\ id \in DOMAIN nodes[n].models
                  /\ \A k \in Nodes : id \in DOMAIN nodes[k].models => n <= k
       IN  /\ nodes' = [n \in Nodes |->
                          [nodes[n] EXCEPT !.models =
                              [id \in DOMAIN @ |->
                                  IF n = FirstHolder(id) THEN summary[id] ELSE @[id]]]]
           /\ threads' = [threads EXCEPT ![t] =
                             [@ EXCEPT !.pc = "models_return",
                                       !.result = <<_combined_models_response(nodes)>>]]
    /\ UNCHANGED <<ctor, mode, max_nodes_to_query, weight, node_name>>

\* models() line 187: the caches are aggregated under the lock.
ModelsCombine(t) ==
    /\ threads[t].pc = "models_combine"
    /\ threads' = [threads EXCEPT ![t] =
                      [@ EXCEPT !.pc = "models_return",
                                !.result = <<_combined_models_response(nodes)>>]]
    /\ UNCHANGED <<ctor, mode, max_nodes_to_query, weight, node_name, nodes>>

\* The aggregation is handed to the caller.
ModelsReturn(t) ==
    /\ threads[t].pc = "models_return"
    /\ threads' = [threads EXCEPT ![t] = IdleThread("models")]
    /\ UNCHANGED <<ctor, mode, max_nodes_to_query, weight, node_name, nodes>>

\* ------------------------------------------------------------------------
\* Construction (AlloyNodeManager.__init__)
\* ------------------------------------------------------------------------

\* NodeConfig(base_url, name=..., weight=...); name "" stands for a name
\* that is not given.
NodeConfig(name, w) == [name |-> name, weight |-> w]

NoError == [type |-> "none", message |-> "none", lines |-> EmptyDict]

\* Frame of __init__(nodes, mode=..., max_nodes_to_query=..., strict_init=...)
\* on entry.
CtorFrame(nodes_arg, mode_arg, max_arg, strict_init) ==
    [pc |-> "validate", nodes |-> nodes_arg, mode |-> mode_arg,
     max_nodes_to_query |-> max_arg, strict_init |-> strict_init,
     error |-> NoError]

\* The frame once __init__ has returned.
Constructed == [pc |-> "done", error |-> NoError]

CtorRaise(type, message, lines) ==
    [ctor EXCEPT !.pc = "failed",
                 !.error = [type |-> type, message |-> message, lines |-> lines]]

\* Variant: max_nodes_to_query is not checked.
CtorValidateIgnoresMax ==
    /\ ctor.pc = "validate"
    /\ IF ctor.nodes = <<>>
       THEN /\ ctor' = CtorRaise("ValueError", "nodes must include at least one node",
                                 EmptyDict)
            /\ UNCHANGED <<mode, max_nodes_to_query, nodes>>
       ELSE /\ ctor' = [ctor EXCEPT !.pc = "build"]
            /\ mode' = ctor.mode
            /\ max_nodes_to_query' = ctor.max_nodes_to_query
            /\ nodes' = <<>>
    /\ UNCHANGED <<weight, node_name, threads>>

\* Lines 64-73: the checks of the arguments, then the plain attributes.
CtorValidate ==
    /\ ctor.pc = "validate"
    /\ IF ctor.nodes = <<>>
       THEN /\ ctor' = CtorRaise("ValueError", "nodes must include at least one node",
                                 EmptyDict)
            /\ UNCHANGED <<mode, max_nodes_to_query, nodes>>
       ELSE IF ctor.max_nodes_to_query <= 0
       THEN /\ ctor' = CtorRaise("ValueError", "max_nodes_to_query must be positive",
                                 EmptyDict)
            /\ UNCHANGED <<mode, max_nodes_to_query, nodes>>
       ELSE /\ ctor' = [ctor EXCEPT !.pc = "build"]
            /\ mode' = ctor.mode
            /\ max_nodes_to_query' = ctor.max_nodes_to_query
            /\ nodes' = <<>>
    /\ UNCHANGED <<weight, node_name, threads>>

\* Lines 75-90: one iteration of the loop; a node client is built for the
\* node and its _NodeState is appended.
CtorAppendNode ==
    /\ ctor.pc = "build"
    /\ LET index == Len(nodes) + 1
       IN  /\ nodes' = Append(nodes, NewNodeState)
           /\ weight' = Append(weight, ctor.nodes[index].weight)
           /\ node_name' = Append(node_name,
                                  IF ctor.nodes[index].name # ""
                                  THEN ctor.nodes[index].name
                                  ELSE DefaultName(index))
           /\ ctor' = [ctor EXCEPT !.pc = IF index = Len(ctor.nodes)
                                          THEN "refresh" ELSE "build"]
    /\ UNCHANGED <<mode, max_nodes_to_query, threads>>

\* Line 92: the initial refresh of all nodes, run by the constructing thread.
CtorRefresh ==
    /\ ctor.pc = "refresh"
    /\ ctor' = [ctor EXCEPT !.pc = "refreshing"]
    /\ threads' = [threads EXCEPT !["t1"] =
                      StartRefresh(IdleThread("none"), {}, "ctor")]
    /\ UNCHANGED <<mode, max_nodes_to_query, weight, node_name, nodes>>

\* Inventories a backend answers the initial fetch with: also an empty one.
InitResponses ==
    BackendResponses \cup {AlloyModelsResponse(<<>>, <<>>, <<>>, <<>>)}

CtorRefreshApply ==
    /\ ctor.pc = "refreshing"
    /\ RefreshStep("t1", InitResponses)

\* Variant: strict_init is not looked at.
CtorFinishIgnoresStrict ==
    /\ ctor.pc = "refreshing"
    /\ threads["t1"].pc = "ctor"
    /\ ctor' =
          IF \A n \in DOMAIN nodes : nodes[n].models = EmptyDict
          THEN CtorRaise("RuntimeError",
                         "No nodes provided a valid /models response", EmptyDict)
          ELSE [ctor EXCEPT !.pc = "done"]
    /\ threads' = [threads EXCEPT !["t1"] = IdleThread("none")]
    /\ UNCHANGED <<mode, max_nodes_to_query, weight, node_name, nodes>>

\* Variant: one node with an empty inventory is enough to fail.
CtorFinishAnyEmptyFails ==
    /\ ctor.pc = "refreshing"
    /\ threads["t1"].pc = "ctor"
    /\ LET errors == threads["t1"].errors
       IN  ctor' =
             IF ctor.strict_init /\ errors # EmptyDict
             THEN CtorRaise("RuntimeError", "failed to initialize node manager",
                            errors)
             ELSE IF \E n \in DOMAIN nodes : nodes[n].models = EmptyDict
             THEN CtorRaise("RuntimeError",
                            "No nodes provided a valid /models response", EmptyDict)
             ELSE [ctor EXCEPT !.pc = "done"]
    /\ threads' = [threads EXCEPT !["t1"] = IdleThread("none")]
    /\ UNCHANGED <<mode, max_nodes_to_query, weight, node_name, nodes>>

\* Lines 93-97: the checks after the initial refresh.
CtorFinish ==
    /\ ctor.pc = "refreshing"
    /\ threads["t1"].pc = "ctor"
    /\ LET errors == threads["t1"].errors
       IN  ctor' =
             IF ctor.strict_init /\ errors # EmptyDict
             THEN CtorRaise("RuntimeError", "failed to initialize node manager",
                            errors)
             ELSE IF \A n \in DOMAIN nodes : nodes[n].models = EmptyDict
             THEN CtorRaise("RuntimeError",
                            "No nodes provided a valid /models response", EmptyDict)
             ELSE [ctor EXCEPT !.pc = "done"]
    /\ threads' = [threads EXCEPT !["t1"] = IdleThread("none")]
    /\ UNCHANGED <<mode, max_nodes_to_query, weight, node_name, nodes>>

\* ------------------------------------------------------------------------
\* Specification
\* ------------------------------------------------------------------------

\* A node after the initial refresh of __init__ (line 92).
InitialNodeStates ==
    {ApplyRefreshSuccess(NewNodeState, r) : r \in BackendResponses}
    \cup {ApplyRefreshFailure(NewNodeState, FetchError)}

\* State after a construction that did not raise (lines 92-97).
Init ==
    /\ ctor = Constructed
    /\ mode \in NodeQueryMode
    /\ max_nodes_to_query \in (IF mode = CONTROLLED_QUERYING THEN {1, 2} ELSE {2})
    /\ weight = [n \in Nodes |-> 1]
    /\ node_name = [n \in Nodes |-> DefaultName(n)]
    /\ nodes \in [Nodes -> InitialNodeStates]
    /\ ~(\A n \in Nodes : DOMAIN nodes[n].models = {})
    /\ threads = [t \in Threads |-> IdleThread("none")]

\* The steps of one caller thread.
ThreadNext(t) ==
    \/ StartCall(t)
    \/ RefreshCall(t)
    \/ RefreshApply(t)
    \/ RefreshReturn(t)
    \/ SelRecollect(t)
    \/ SelRank(t)
    \/ SelRankTorn(t)
    \/ SelPick(t)
    \/ Increment(t)
    \/ InvokeRaises(t)
    \/ InvokeReturns(t)
    \/ InvokeStreams(t)
    \/ StreamNextItem(t)
    \/ StreamNextEnd(t)
    \/ StreamNextError(t)
    \/ StreamClose(t)
    \/ StreamLateClose(t)

Next == \E t \in Threads : ThreadNext(t)

\* Two caller threads, any interleaving of their locked steps.
Spec == Init /\ [][Next]_vars

\* ------------------------------------------------------------------------
\* Specification for the scoring and the choice: one caller thread, caches
\* drawn from a wider range of inventories
\* ------------------------------------------------------------------------

\* Entries a backend reports for model m1 and for model m2.
ScoreEntriesM1 ==
    {AlloyModel("m1", TRUE, a, c, s, TextToImage) :
        a \in {1, 2}, c \in BOOLEAN, s \in {ALLOCATED, QUEUE}}
    \cup {AlloyModel("m1", FALSE, 0, TRUE, ALLOCATED, TextToImage)}

ScoreEntriesM2 ==
    {AlloyModel("m2", TRUE, a, TRUE, ALLOCATED, TextToText) : a \in {0, 1, 900}}

ScoreInventories ==
    {AlloyModelsResponse(<<e>>, <<>>, <<>>, <<>>) : e \in ScoreEntriesM1}
    \cup {AlloyModelsResponse(<<>>, <<>>, <<>>, <<e>>) : e \in ScoreEntriesM2}
    \cup {AlloyModelsResponse(<<e1>>, <<>>, <<>>, <<e2>>) :
             e1 \in ScoreEntriesM1, e2 \in ScoreEntriesM2}

\* Streams for model m1 that other callers hold open on a node.
HeldOpen == {0, 1}

WithHeldOpen(node, k) ==
    IF k = 0 THEN node ELSE _increment_inflight(node, "m1")

\* State after a construction that did not raise, with the calls of other
\* callers that are in flight at that moment.
InitSelect ==
    /\ ctor = Constructed
    /\ mode \in {LOCAL_ONLY, CONTROLLED_QUERYING}
    /\ max_nodes_to_query = 1
    /\ weight \in {[n \in Nodes |-> IF n = 1 THEN 1 ELSE w] : w \in {0 - 1, 1, 2}}
    /\ node_name = [n \in Nodes |-> DefaultName(n)]
    /\ \E inv \in [Nodes -> ScoreInventories], k \in HeldOpen :
         nodes = [n \in Nodes |->
                    WithHeldOpen(ApplyRefreshSuccess(NewNodeState, inv[n]),
                                 IF n = 1 THEN k ELSE 0)]
    /\ threads = [t \in Threads |-> IdleThread("none")]

NextSelect ==
    \/ StartCall("t1")
    \/ RefreshApply("t1")
    \/ SelRecollect("t1")
    \/ SelRank("t1")
    \/ SelPick("t1")
    \/ Increment("t1")
    \/ InvokeRaises("t1")
    \/ InvokeReturns("t1")
    \/ InvokeStreams("t1")
    \/ StreamNextItem("t1")
    \/ StreamNextEnd("t1")
    \/ StreamClose("t1")

SpecSelect == InitSelect /\ [][NextSelect]_vars

\* ------------------------------------------------------------------------
\* Specification for models(): one caller thread, caches and fetched
\* inventories drawn from a wider range of responses
\* ------------------------------------------------------------------------

TextToImageAndText == <<ModelCapability({TEXT}, {IMAGE, TEXT})>>

\* Entries a backend reports for model m1: every allocation status with
\* every combination of the two flags.
AggEntriesM1 ==
    {AlloyModel("m1", sup, 1, conc, st, TextToImage) :
        sup \in BOOLEAN, conc \in BOOLEAN, st \in AllocationStatus}

\* Inventories a backend answers models() with: one entry for m1; m1 in two
\* lists; m1 in a list that is not an output of its capabilities; m1 in two
\* lists with entries that differ; two models in one list, not in id
\* order; m1 without capabilities.
AggResponses ==
    {AlloyModelsResponse(<<e>>, <<>>, <<>>, <<>>) : e \in AggEntriesM1}
    \cup
    { AlloyModelsResponse(
          <<AlloyModel("m1", TRUE, 2, TRUE, QUEUE, TextToImageAndText)>>, <<>>, <<>>,
          <<AlloyModel("m1", TRUE, 2, TRUE, QUEUE, TextToImageAndText)>>),
      AlloyModelsResponse(
          <<AlloyModel("m1", TRUE, 1, TRUE, ALLOCATED, TextToText)>>,
          <<>>, <<>>, <<>>),
      AlloyModelsResponse(
          <<AlloyModel("m1", TRUE, 1, TRUE, ALLOCATED, <<>>)>>, <<>>, <<>>,
          <<AlloyModel("m1", FALSE, 2, FALSE, QUEUE, TextToText)>>),
      AlloyModelsResponse(
          <<AlloyModel("m2", TRUE, 2, FALSE, DEALLOCATED, TextToImage),
            AlloyModel("m1", TRUE, 1, TRUE, ALLOCATED, TextToImage)>>,
          <<>>, <<>>, <<>>),
      AlloyModelsResponse(
          <<>>, <<AlloyModel("m1", TRUE, 0, TRUE, DEALLOCATED, <<>>)>>, <<>>, <<>>) }

\* State after a construction that did not raise.
InitModels ==
    /\ ctor = Constructed
    /\ mode = LOCAL_ONLY
    /\ max_nodes_to_query = 2
    /\ weight = [n \in Nodes |-> 1]
    /\ node_name = [n \in Nodes |-> DefaultName(n)]
    /\ nodes \in [Nodes -> {ApplyRefreshSuccess(NewNodeState, r) : r \in AggResponses}
                           \cup {ApplyRefreshFailure(NewNodeState, FetchError)}]
    /\ ~(\A n \in Nodes : DOMAIN nodes[n].models = {})
    /\ threads = [t \in Threads |-> IdleThread("none")]

ModelsRefreshApply(t) == RefreshStep(t, AggResponses)

NextModels ==
    \/ ModelsCall("t1")
    \/ ModelsRefreshApply("t1")
    \/ ModelsCombine("t1")
    \/ ModelsReturn("t1")

SpecModels == InitModels /\ [][NextModels]_vars

\* ------------------------------------------------------------------------
\* Specification of the construction, followed by the calls of one thread
\* while a second thread calls refresh_nodes
\* ------------------------------------------------------------------------

\* Arguments of the constructor.
CtorNodeLists ==
    { <<>>,
      <<NodeConfig("", 1), NodeConfig("", 1)>>,
      \* the first node is given the name that the second gets by default
      <<NodeConfig("node-1", 1), NodeConfig("", 1)>> }

CtorMaxArgs == {0 - 1, 0, 1, 2}

\* __init__ has been entered; no attribute of the manager is set yet.
InitCtor ==
    /\ ctor \in {CtorFrame(ns, m, k, strict) :
                    ns \in CtorNodeLists, m \in NodeQueryMode,
                    k \in CtorMaxArgs, strict \in BOOLEAN}
    /\ mode = "unset"
    /\ max_nodes_to_query = 0
    /\ weight = <<>>
    /\ node_name = <<>>
    /\ nodes = <<>>
    /\ threads = [t \in Threads |-> IdleThread("none")]

NextInit ==
    \/ CtorValidate
    \/ CtorAppendNode
    \/ CtorRefresh
    \/ CtorRefreshApply
    \/ CtorFinish
    \/ ctor.pc = "done" /\ StartCall("t1")
    \/ ctor.pc = "done" /\ ModelsCall("t1")
    \/ ctor.pc = "done" /\ RefreshApply("t1")
    \/ ModelsCombine("t1")
    \/ ModelsReturn("t1")
    \/ SelRecollect("t1")
    \/ SelRank("t1")
    \/ SelRankTorn("t1")
    \/ SelPick("t1")
    \/ Increment("t1")
    \/ InvokeRaises("t1")
    \/ InvokeRaisesStreamingUnsupported("t1")
    \/ InvokeReturns("t1")
    \/ ctor.pc = "done" /\ RefreshCall("t2")
    \/ RefreshApply("t2")
    \/ RefreshReturn("t2")

SpecInit == InitCtor /\ [][NextInit]_vars

\* ------------------------------------------------------------------------
\* Properties of the in-flight accounting and of the dispatcher
\* ------------------------------------------------------------------------

InFlight(n, model_id) == DictGet(nodes[n].local_inflight_by_model, model_id, 0)

StreamOpen(t) ==
    threads[t].pc = "stream" /\ threads[t].gen \in {"unstarted", "suspended"}

StreamEnded(t) ==
    threads[t].pc = "stream" /\ threads[t].gen = "finished"

\* No call in progress and no stream open.
Quiescent == \A t \in Threads : threads[t].pc = "idle" \/ StreamEnded(t)

\* C1: in every state outside the lock, every node's local_inflight_total
\* equals the sum of the values of its local_inflight_by_model.
C1_TotalIsSumByModel ==
    \A n \in Nodes :
        nodes[n].local_inflight_total = DictSum(nodes[n].local_inflight_by_model)

\* C1 witness: two dispatches for different models are in flight on one node.
C1_Witness ==
    \E n \in Nodes :
        /\ nodes[n].local_inflight_total = 2
        /\ DOMAIN nodes[n].local_inflight_by_model = ModelIds

\* C2: local_inflight_by_model holds no entry of 0 or less, and
\* local_inflight_total is never negative.
C2_NoZeroEntries ==
    \A n \in Nodes :
        /\ nodes[n].local_inflight_total >= 0
        /\ \A m \in DOMAIN nodes[n].local_inflight_by_model :
              nodes[n].local_inflight_by_model[m] >= 1

\* C2 witness: a call has returned and its decrement emptied the counters
\* of every node.
C2_Witness ==
    /\ \E t \in Threads : threads[t].outcome = "returned"
    /\ \A n \in Nodes : /\ nodes[n].local_inflight_by_model = EmptyDict
                        /\ nodes[n].local_inflight_total = 0

\* C3 (as claimed): at every quiescent moment every node has
\* local_inflight_total = 0 and an empty local_inflight_by_model.
C3_QuiescentCountersZero ==
    Quiescent =>
        \A n \in Nodes : /\ nodes[n].local_inflight_total = 0
                          /\ nodes[n].local_inflight_by_model = EmptyDict

\* The step in which thread t leaves the node client operation with the
\* given outcome.
LeavesInvoke(t, outcome) ==
    /\ threads[t].pc = "invoking"
    /\ threads'[t].pc = "idle"
    /\ threads'[t].outcome = outcome

\* Exactly one unit is taken off node n's counters for model_id, and no
\* other node changes.
ReleasedOnce(n, model_id) ==
    /\ nodes'[n].local_inflight_total = nodes[n].local_inflight_total - 1
    /\ DictGet(nodes'[n].local_inflight_by_model, model_id, 0)
         = InFlight(n, model_id) - 1
    /\ \A m \in ModelIds \ {model_id} :
          DictGet(nodes'[n].local_inflight_by_model, m, 0) = InFlight(n, m)
    /\ \A k \in Nodes \ {n} : nodes'[k] = nodes[k]

\* C4: when the node client operation raises, the chosen node's counters
\* for the model go down by exactly one, the call ends with the backend's
\* error, and no further node is tried (the thread is back between calls).
C4_ErrorReleasesOnceNoRetry ==
    [][\A t \in Threads :
         /\ threads[t].pc = "invoking"
               => threads'[t].pc \in {"invoking", "idle", "stream"}
         /\ LeavesInvoke(t, "BackendError")
               => ReleasedOnce(threads[t].node, threads[t].model_id)]_vars

\* C4 witness: a call ended with the backend's error.
C4_Witness ==
    \E t \in Threads : threads[t].pc = "idle" /\ threads[t].outcome = "BackendError"

\* C5: over any sequence of terminal events on one wrapped stream the
\* counters are released at most once.
C5_AtMostOneRelease ==
    \A t \in Threads : threads[t].releases <= 1

\* C5 witness: a stream was exhausted (one release) and closed afterwards.
C5_Witness ==
    \E t \in Threads :
        /\ StreamEnded(t)
        /\ threads[t].first_end = "exhausted"
        /\ threads[t].late >= 1
        /\ threads[t].releases = 1

\* C6 (as claimed): a stream abandoned by close() before exhaustion, also
\* before its first item, has released the counters exactly once.
C6_AbandonReleasesOnce ==
    \A t \in Threads :
        (StreamEnded(t) /\ threads[t].first_end = "close")
            => threads[t].releases = 1

\* C7: from the increment until the node client operation has returned,
\* and while a returned stream is neither exhausted, closed nor failed,
\* the chosen node counts at least one in-flight call in total and for the
\* model; a non-streaming call releases the counters in the step that
\* returns.
C7_Holds(t) ==
    (threads[t].pc = "invoking" \/ StreamOpen(t))
        => /\ nodes[threads[t].node].local_inflight_total >= 1
           /\ InFlight(threads[t].node, threads[t].model_id) >= 1

C7_CountedWhileInFlight ==
    [][/\ \A t \in Threads : C7_Holds(t)
       /\ (\A t \in Threads : C7_Holds(t))'
       /\ \A t \in Threads :
            /\ (threads[t].pc = "picked" /\ threads'[t].pc = "invoking")
                  => /\ nodes'[threads[t].node].local_inflight_total
                          = nodes[threads[t].node].local_inflight_total + 1
                     /\ DictGet(nodes'[threads[t].node].local_inflight_by_model,
                                threads[t].model_id, 0)
                          = InFlight(threads[t].node, threads[t].model_id) + 1
            /\ LeavesInvoke(t, "returned")
                  => ReleasedOnce(threads[t].node, threads[t].model_id)]_vars

\* C7 witness: a returned stream is held open at an item while its node
\* counts exactly this one call.
C7_Witness ==
    \E t \in Threads :
        /\ threads[t].pc = "stream"
        /\ threads[t].gen = "suspended"
        /\ nodes[threads[t].node].local_inflight_total = 1

\* ------------------------------------------------------------------------
\* Properties of the scoring and of the choice
\* ------------------------------------------------------------------------

Score(n, model_id) == _node_score(nodes[n], weight[n], model_id)

Listed(n, model_id) == model_id \in DOMAIN nodes[n].models

Supported(n, model_id) ==
    Listed(n, model_id) /\ nodes[n].models[model_id].is_supported

\* The final locked step of the selector, taken by thread t with a choice.
PickStep(t) == threads[t].pc = "sel_pick" /\ threads'[t].pc = "picked"

\* C8: the selector returns a candidate of the final locked step whose
\* score for the model is minimal, and among the candidates of minimal
\* score the one that comes first in the node list.
C8_PicksFirstMinimum ==
    [][\A t \in Threads :
         PickStep(t) =>
           LET m == threads[t].model_id
               chosen == threads'[t].node
           IN  /\ chosen \in Nodes
               /\ Supported(chosen, m)
               /\ \A k \in Nodes :
                    Supported(k, m) =>
                      /\ ~ScoreLess(Score(k, m), Score(chosen, m))
                      /\ Score(k, m) = Score(chosen, m) => chosen <= k]_vars

\* C8 witness: both nodes are candidates with the same score and the first
\* one has been chosen.
C8_Witness ==
    \E t \in Threads :
        /\ threads[t].pc = "picked"
        /\ threads[t].node = 1
        /\ \A n \in Nodes : Supported(n, threads[t].model_id)
        /\ Score(1, threads[t].model_id) = Score(2, threads[t].model_id)

ScoreFiniteIffSupported ==
    \A n \in Nodes, m \in ModelIds : Score(n, m).finite <=> Supported(n, m)

\* C9: a node's score for a model is finite exactly when its cache lists
\* the model as supported, and the node the selector returns lists the
\* model as supported at the moment of the choice.
C9_FiniteIffSupported ==
    [][/\ ScoreFiniteIffSupported
       /\ ScoreFiniteIffSupported'
       /\ \A t \in Threads :
            PickStep(t) => Supported(threads'[t].node, threads[t].model_id)]_vars

\* C9 witness: a node has been chosen while the other node lists the model
\* as unsupported with fewer active requests.
C9_Witness ==
    \E t \in Threads, n \in Nodes :
        /\ threads[t].pc = "picked"
        /\ threads[t].node # n
        /\ Listed(n, threads[t].model_id)
        /\ ~Supported(n, threads[t].model_id)
        /\ nodes[n].models[threads[t].model_id].active_requests
             < nodes[threads[t].node].models[threads[t].model_id].active_requests

Active(n, model_id) == nodes[n].models[model_id].active_requests

\* Two candidates that agree in what C10 names: allocation status,
\* supports_concurrent_requests, weight, supported-model count and local
\* in-flight counts.
AlikeButLoad(a, b, m) ==
    /\ Supported(a, m) /\ Supported(b, m)
    /\ nodes[a].models[m].allocation_status = nodes[b].models[m].allocation_status
    /\ nodes[a].models[m].supports_concurrent_requests
         = nodes[b].models[m].supports_concurrent_requests
    /\ weight[a] = weight[b]
    /\ nodes[a].supported_model_count = nodes[b].supported_model_count
    /\ nodes[a].local_inflight_total = nodes[b].local_inflight_total
    /\ InFlight(a, m) = InFlight(b, m)

\* Active requests a node's cache reports for its other models.
OtherActive(n, m) == nodes[n].remote_active_total - Active(n, m)

\* C10 (as claimed): of two candidates alike in status, concurrency, weight,
\* supported-model count and local in-flight counts, the one with strictly
\* more cached active requests for the model is not chosen.
C10_LowerQueueWinsAsClaimed ==
    [][\A t \in Threads :
         PickStep(t) =>
           \A a \in Nodes, b \in Nodes :
             (/\ AlikeButLoad(a, b, threads[t].model_id)
              /\ Active(a, threads[t].model_id) < Active(b, threads[t].model_id))
                => threads'[t].node # b]_vars

\* C10 (amended): the same, for two candidates whose caches also report
\* the same number of active requests for their other models.
C10_LowerQueueWins ==
    [][\A t \in Threads :
         PickStep(t) =>
           \A a \in Nodes, b \in Nodes :
             (/\ AlikeButLoad(a, b, threads[t].model_id)
              /\ OtherActive(a, threads[t].model_id)
                   = OtherActive(b, threads[t].model_id)
              /\ Active(a, threads[t].model_id) < Active(b, threads[t].model_id))
                => threads'[t].node # b]_vars

\* C10 witness: the second node has been chosen over a first node that is
\* alike but for more active requests for the model.
C10_Witness ==
    \E t \in Threads :
        /\ threads[t].pc = "picked"
        /\ threads[t].node = 2
        /\ AlikeButLoad(2, 1, threads[t].model_id)
        /\ OtherActive(2, threads[t].model_id) = OtherActive(1, threads[t].model_id)
        /\ Active(2, threads[t].model_id) < Active(1, threads[t].model_id)

\* Two allocated candidates a and b that agree in weight, supported-model
\* count and local in-flight counts, a listing the model as non-concurrent
\* and b as concurrent.
PenaltyCase(a, b, m) ==
    /\ Supported(a, m) /\ Supported(b, m)
    /\ nodes[a].models[m].allocation_status = ALLOCATED
    /\ nodes[b].models[m].allocation_status = ALLOCATED
    /\ ~nodes[a].models[m].supports_concurrent_requests
    /\ nodes[b].models[m].supports_concurrent_requests
    /\ weight[a] = weight[b]
    /\ nodes[a].supported_model_count = nodes[b].supported_model_count
    /\ nodes[a].local_inflight_total = nodes[b].local_inflight_total
    /\ InFlight(a, m) = InFlight(b, m)

\* C11 (as claimed): in that case the call goes to b whenever ten times a's
\* cached active requests for the model exceed b's.
C11_NonConcurrentPenaltyAsClaimed ==
    [][\A t \in Threads :
         PickStep(t) =>
           \A a \in Nodes, b \in Nodes :
             (/\ PenaltyCase(a, b, threads[t].model_id)
              /\ NonConcurrentFactor * Active(a, threads[t].model_id)
                   > Active(b, threads[t].model_id))
                => threads'[t].node = b]_vars

\* C11 (amended): the same, for two candidates whose caches also report the
\* same total of active requests over all their models.
C11_NonConcurrentPenalty ==
    [][\A t \in Threads :
         PickStep(t) =>
           \A a \in Nodes, b \in Nodes :
             (/\ PenaltyCase(a, b, threads[t].model_id)
              /\ nodes[a].remote_active_total = nodes[b].remote_active_total
              /\ NonConcurrentFactor * Active(a, threads[t].model_id)
                   > Active(b, threads[t].model_id))
                => threads'[t].node = b]_vars

\* C11 witness: the second node, concurrent with more active requests, has
\* been chosen over the first, non-concurrent with fewer.
C11_Witness ==
    \E t \in Threads :
        /\ threads[t].pc = "picked"
        /\ threads[t].node = 2
        /\ PenaltyCase(1, 2, threads[t].model_id)
        /\ nodes[1].remote_active_total = nodes[2].remote_active_total
        /\ Active(1, threads[t].model_id) < Active(2, threads[t].model_id)
        /\ NonConcurrentFactor * Active(1, threads[t].model_id)
             > Active(2, threads[t].model_id)

\* ------------------------------------------------------------------------
\* Properties of the selector's refreshes
\* ------------------------------------------------------------------------

\* One fetch for each node of S and none for any other node.
FetchedOnce(S) == [n \in Nodes |-> IF n \in S THEN 1 ELSE 0]

\* Thread t is inside _select_node_for_model.
InSelection(t) ==
    \/ threads[t].pc \in {"sel_recollect", "sel_rank", "sel_pick"}
    \/ threads[t].pc = "refresh" /\ threads[t].ret \in {"sel_recollect", "sel_pick"}

\* Thread t has done all the refreshes of its call and is about to take the
\* final locked step of the selector.
RefreshesDone(t) == threads[t].pc = "sel_pick"

FetchTotal(t) == SumOver(threads[t].fetches, Nodes)

\* T holds the k candidates of lowest score for model m, in ascending score
\* and list order among equal scores.
LowestScored(T, cands, m, k) ==
    /\ T \subseteq SeqToSet(cands)
    /\ Cardinality(T) = k
    /\ \A i \in DOMAIN cands, j \in DOMAIN cands :
          (cands[i] \in T /\ cands[j] \notin T) =>
             \/ ScoreLess(Score(cands[i], m), Score(cands[j], m))
             \/ /\ ~ScoreLess(Score(cands[j], m), Score(cands[i], m))
                /\ i < j

\* The ranking step of thread t, whatever other threads do meanwhile: the
\* fetches it submits go to the min(max_nodes_to_query, |candidates|)
\* candidates of lowest current score.
RankedByCurrentScores(t) ==
    (threads[t].pc = "sel_rank" /\ threads'[t].pc # "sel_rank") =>
        /\ threads'[t].pc = "refresh"
        /\ LowestScored(threads'[t].pending, threads[t].cands,
                        threads[t].model_id,
                        Min(max_nodes_to_query, Len(threads[t].cands)))

\* The same for a ranking step during which no other thread writes node
\* fields.
RankedRight(t) ==
    (threads[t].pc = "sel_rank" /\ threads'[t].pc # "sel_rank" /\ nodes' = nodes) =>
        /\ threads'[t].pc = "refresh"
        /\ LowestScored(threads'[t].pending, threads[t].cands,
                        threads[t].model_id,
                        Min(max_nodes_to_query, Len(threads[t].cands)))

C14_LocalOnlyNoFetchAsClaimed ==
    \A t \in Threads :
        (mode = LOCAL_ONLY /\ InSelection(t))
            => threads[t].fetches = FetchedOnce({})

\* C14 (amended): under LOCAL_ONLY a routed call for a model that some
\* node's cache lists as supported at its first collection submits no fetch.
C14_LocalOnlyNoFetch ==
    \A t \in Threads :
        (mode = LOCAL_ONLY /\ InSelection(t) /\ ~threads[t].forced)
            => /\ threads[t].fetches = FetchedOnce({})
               /\ threads[t].pc = "sel_pick"

\* C14 witness: a LOCAL_ONLY call has collected both nodes as candidates
\* and is about to choose, with no fetch submitted.
C14_Witness ==
    \E t \in Threads :
        /\ mode = LOCAL_ONLY
        /\ RefreshesDone(t)
        /\ ~threads[t].forced
        /\ Len(threads[t].cands) = 2
        /\ threads[t].fetches = FetchedOnce({})

\* The step in which the routed call of thread t fails with the
\* no-candidate error.
NoCandidateStep(t) ==
    /\ threads'[t] = IdleThread("NoCandidate")
    /\ threads'[t] # threads[t]

NoneSupports(m) == \A n \in Nodes : ~Supported(n, m)

\* The refresh of all nodes forced by the call of thread t is complete.
ForcedRefreshDone(t) ==
    /\ threads[t].forced
    /\ threads[t].pc \in {"sel_recollect", "sel_pick"}
    /\ \A n \in Nodes : threads[t].fetches[n] >= 1

\* C16 (as claimed): a routed call fails with the no-candidate error only
\* after a refresh of all nodes forced by that call, with no node's cache
\* listing the model as supported.
C16_NoCandidateOnlyAfterForcedRefresh ==
    [][\A t \in Threads :
         NoCandidateStep(t) =>
            /\ ForcedRefreshDone(t)
            /\ NoneSupports(threads[t].model_id)]_vars

\* C16 (amended): a routed call fails with the no-candidate error only in a
\* locked collection step of the selector that finds no node's cache
\* listing the model as supported; a call whose first collection was empty
\* fails so only after the refresh of all nodes it forced.
C16_NoCandidateOnlyWhenNoneSupports ==
    [][\A t \in Threads :
         NoCandidateStep(t) =>
            /\ threads[t].pc \in {"sel_recollect", "sel_pick"}
            /\ NoneSupports(threads[t].model_id)
            /\ (threads[t].forced \/ threads[t].pc = "sel_recollect")
                  => ForcedRefreshDone(t)]_vars

\* C16 witness: a call has failed with the no-candidate error and no node
\* lists model m1 as supported.
C16_Witness ==
    \E t \in Threads :
        /\ threads[t] = IdleThread("NoCandidate")
        /\ NoneSupports("m1")

\* ------------------------------------------------------------------------
\* Properties of the error paths, of the construction and of models()
\* ------------------------------------------------------------------------

\* C15 (as claimed): the step in which a chat or audio call with
\* stream=true fails with the streaming-unsupported error starts with the
\* thread between calls (no node selected, no fetch submitted, no node
\* client operation started) and changes no node state.
C15_StreamingUnsupportedBeforeSelection ==
    [][\A t \in Threads :
         (/\ threads'[t] = IdleThread("StreamingUnsupported")
          /\ threads'[t] # threads[t])
            => /\ threads[t].pc = "idle"
               /\ nodes' = nodes]_vars

\* The constructor was called with an empty node list or with
\* max_nodes_to_query <= 0.
BadArguments == ctor.nodes = <<>> \/ ctor.max_nodes_to_query <= 0

\* C17: a construction with an empty node list or max_nodes_to_query <= 0
\* never gets past the argument checks: it fails with the ValueError, no
\* node state (and node client) is built and no inventory fetch is submitted.
C17_ConfigErrorBeforeAnyClient ==
    BadArguments =>
        /\ ctor.pc \in {"validate", "failed"}
        /\ ctor.pc = "failed" => ctor.error.type = "ValueError"
        /\ nodes = <<>>
        /\ \A t \in Threads : threads[t] = IdleThread("none")

\* C17 witness: a construction with two nodes and max_nodes_to_query <= 0
\* has failed.
C17_Witness ==
    /\ ctor.pc = "failed"
    /\ ctor.nodes # <<>>
    /\ ctor.max_nodes_to_query <= 0
    /\ ctor.error.type = "ValueError"

\* The step in which the constructor leaves the initial refresh.
CtorFinishStep == ctor.pc = "refreshing" /\ ctor'.pc # "refreshing"

\* Nodes whose initial fetch failed.
FailedNodes == {n \in DOMAIN nodes : nodes[n].last_refresh_error # "none"}

AllEmpty == \A n \in DOMAIN nodes : nodes[n].models = EmptyDict

\* C18: with strict_init, a failed initial fetch makes the construction
\* fail with an error that lists every failing node with its error;
\* without strict_init the construction succeeds as soon as some node has
\* a non-empty inventory.
C18_StrictInit ==
    [][CtorFinishStep =>
         /\ (ctor.strict_init /\ FailedNodes # {}) =>
               /\ ctor'.pc = "failed"
               /\ ctor'.error.type = "RuntimeError"
               /\ ctor'.error.lines =
                     [name \in {NodeName(n) : n \in FailedNodes} |->
                        nodes[CHOOSE n \in FailedNodes : NodeName(n) = name]
                            .last_refresh_error]
         /\ (~ctor.strict_init /\ ~AllEmpty) => ctor'.pc = "done"]_vars

\* C18 witness: a strict construction has failed naming one node while
\* the other node delivered an inventory.
C18_Witness ==
    /\ ctor.pc = "failed"
    /\ ctor.strict_init
    /\ Cardinality(DOMAIN ctor.error.lines) = 1
    /\ ~AllEmpty

\* A node answered the fetch with an empty inventory.
ReturnedEmpty(n) ==
    nodes[n].models = EmptyDict /\ nodes[n].last_refresh_error = "none"

\* The selector never returns a node whose cache is empty.
EmptyNeverChosen ==
    \A t \in Threads :
        PickStep(t) => nodes[threads'[t].node].models # EmptyDict

\* C19 (as claimed): the construction fails exactly when every node's
\* models mapping is empty after the initial refresh, and a node with an
\* empty cache is never chosen.
C19_FailsExactlyWhenAllEmpty ==
    [][/\ CtorFinishStep => (ctor'.pc = "failed" <=> AllEmpty)
       /\ EmptyNeverChosen]_vars

\* C19 (amended): the construction fails whenever every node's models
\* mapping is empty, and without strict_init only then; it succeeds when
\* one node has an inventory and another returned an empty one; a node
\* with an empty cache is never chosen.
C19_FailsWhenAllEmpty ==
    [][/\ CtorFinishStep =>
            /\ AllEmpty => ctor'.pc = "failed"
            /\ ~ctor.strict_init => (ctor'.pc = "failed" <=> AllEmpty)
            /\ (~AllEmpty /\ \A n \in DOMAIN nodes :
                                nodes[n].models = EmptyDict => ReturnedEmpty(n))
                  => ctor'.pc = "done"
       /\ EmptyNeverChosen]_vars

\* C19 witness: after a construction that succeeded, a node has been chosen
\* while the other node's cache is still the empty inventory it returned.
C19_Witness ==
    \E t \in Threads, n \in DOMAIN nodes :
        /\ ctor.pc = "done"
        /\ threads[t].pc = "picked"
        /\ threads[t].node # n
        /\ ReturnedEmpty(n)

\* What the cache of node n holds if it is the snapshot of the node's last
\* successful fetch, and nothing if there was none.
Snapshot(n) ==
    IF nodes[n].last_response = <<>> THEN EmptyDict
    ELSE _index_models(nodes[n].last_response[1]).models

RECURSIVE SnapshotActive(_, _)
SnapshotActive(id, S) ==
    IF S = {} THEN 0
    ELSE LET n == CHOOSE x \in S : TRUE
         IN  Snapshot(n)[id].active_requests + SnapshotActive(id, S \ {n})

ResultEntries(result) ==
    UNION {SeqToSet(result[modality]) : modality \in {IMAGE, AUDIO, VIDEO, TEXT}}

\* The aggregation lists exactly the models of the nodes' snapshots, each
\* with the sum of the active requests of the nodes that hold it.
AggregatesSnapshots(result) ==
    \A id \in ModelIds :
        LET holders == {n \in Nodes : id \in DOMAIN Snapshot(n)}
            entries == {e \in ResultEntries(result) : e.model_id = id}
        IN  /\ holders = {} => entries = {}
            /\ holders # {} =>
                  /\ entries # {}
                  /\ \A e \in entries :
                        /\ e.active_requests = SnapshotActive(id, holders)
                        /\ e.is_supported
                             = (\E n \in holders : Snapshot(n)[id].is_supported)

\* C20: models() ends only by returning an aggregation, whatever the
\* fetches of its refresh did, and in the aggregation every node counts
\* with the snapshot of its last successful fetch (nothing if none).
C20_ModelsToleratesFailedFetches ==
    [][\A t \in Threads :
         /\ (threads[t].pc = "refresh" /\ threads[t].ret = "models_combine")
               => threads'[t].pc \in {"refresh", "models_combine"}
         /\ threads[t].pc = "models_combine"
               => threads'[t].pc \in {"models_combine", "models_return"}
         /\ threads[t].pc = "models_return"
               => threads'[t] \in {threads[t], IdleThread("models")}
         /\ (threads[t].pc = "models_combine" /\ threads'[t].pc = "models_return")
               => AggregatesSnapshots(threads'[t].result[1])]_vars

\* C20 witness: models() is about to return an aggregation that lists
\* model m2 from the cache of a node whose fetch failed in this call, the
\* only node that holds m2.
C20_Witness ==
    \E t \in Threads, n \in Nodes :
        /\ threads[t].pc = "models_return"
        /\ NodeName(n) \in DOMAIN threads[t].errors
        /\ "m2" \in DOMAIN nodes[n].models
        /\ \A k \in Nodes \ {n} : "m2" \notin DOMAIN nodes[k].models
        /\ \E e \in ResultEntries(threads[t].result[1]) :
              /\ e.model_id = "m2"
              /\ e.active_requests = nodes[n].models["m2"].active_requests

\* ------------------------------------------------------------------------
\* Specification for the accounting and the scoring functions: the three
\* methods applied to the first node in any order, on caches drawn from a
\* range of inventories
\* ------------------------------------------------------------------------

MaxInflight == 2

\* Entries a backend reports for model m1 and for model m2.
UnitEntriesM1 ==
    {AlloyModel("m1", TRUE, a, c, s, TextToImage) :
        a \in {0, 1, 2}, c \in BOOLEAN, s \in AllocationStatus}
    \cup {AlloyModel("m1", FALSE, 1, TRUE, ALLOCATED, TextToImage)}

UnitEntriesM2 ==
    {AlloyModel("m2", TRUE, 3, TRUE, ALLOCATED, TextToText),
     AlloyModel("m2", FALSE, 1, TRUE, ALLOCATED, TextToText)}

UnitInventories ==
    {AlloyModelsResponse(<<e>>, <<>>, <<>>, <<>>) : e \in UnitEntriesM1}
    \cup {AlloyModelsResponse(<<e1>>, <<>>, <<>>, <<e2>>) :
             e1 \in UnitEntriesM1, e2 \in UnitEntriesM2}
    \cup {AlloyModelsResponse(<<>>, <<>>, <<>>, <<e>>) : e \in UnitEntriesM2}

InitUnit ==
    /\ ctor = Constructed
    /\ mode = LOCAL_ONLY
    /\ max_nodes_to_query = 1
    /\ weight \in {[n \in Nodes |-> w] : w \in {0 - 1, 0, 1}}
    /\ node_name = [n \in Nodes |-> DefaultName(n)]
    /\ \E inv \in UnitInventories :
         nodes = [n \in Nodes |-> ApplyRefreshSuccess(NewNodeState, inv)]
    /\ threads = [t \in Threads |-> IdleThread("none")]

\* What thread t did last: the method, its model_id and its return value.
Called(method, model_id, value) ==
    [IdleThread(method) EXCEPT !.model_id = model_id, !.node = 1,
                               !.result = value]

\* self._increment_inflight(node, model_id) on the first node.
UnitIncrement(t) ==
    /\ nodes[1].local_inflight_total < MaxInflight
    /\ \E model_id \in ModelIds :
         /\ DictGet(nodes[1].local_inflight_by_model, model_id, 0) < MaxInflight
         /\ nodes' = [nodes EXCEPT ![1] = _increment_inflight(@, model_id)]
         /\ threads' = [threads EXCEPT
                          ![t] = Called("_increment_inflight", model_id, <<>>)]
    /\ UNCHANGED <<ctor, mode, max_nodes_to_query, weight, node_name>>

\* self._decrement_inflight(node, model_id) on the first node, whatever its
\* counters are.
UnitDecrement(t) ==
    /\ \E model_id \in ModelIds :
         /\ nodes' = [nodes EXCEPT ![1] = _decrement_inflight(@, model_id)]
         /\ threads' = [threads EXCEPT
                          ![t] = Called("_decrement_inflight", model_id, <<>>)]
    /\ UNCHANGED <<ctor, mode, max_nodes_to_query, weight, node_name>>

\* self._node_score(node, model_id) on the first node.
UnitScore(t) ==
    /\ \E model_id \in ModelIds :
         threads' = [threads EXCEPT
                       ![t] = Called("_node_score", model_id,
                                     <<_node_score(nodes[1], weight[1], model_id)>>)]
    /\ UNCHANGED <<ctor, mode, max_nodes_to_query, weight, node_name, nodes>>

NextUnit ==
    \/ UnitIncrement("t1")
    \/ UnitDecrement("t1")
    \/ UnitScore("t1")

SpecUnit == InitUnit /\ [][NextUnit]_vars

\* ------------------------------------------------------------------------
\* Specification for overlapping refreshes: the completion of a fetch on a
\* worker thread of the pool (line 206) and its handling by the caller in
\* the as_completed loop (lines 208-228) are separate steps
\* ------------------------------------------------------------------------

MaxAnswers == 2

\* Position of the next answer among the answers that the backend of node n
\* has given to the refresh_nodes calls now running.
NextAnswer(n) ==
    LET given == {threads[u].answered[n].serial :
                     u \in {v \in Threads : n \in DOMAIN threads[v].answered}}
    IN  IF given = {} THEN 1
        ELSE 1 + (CHOOSE k \in given : \A j \in given : j <= k)

\* The future of the fetch of node n submitted by thread t completes: the
\* backend has answered with an inventory, or the fetch has failed.
FetchAnswered(t) ==
    /\ threads[t].pc = "refresh"
    /\ \E n \in threads[t].pending \ DOMAIN threads[t].answered :
         /\ NextAnswer(n) <= MaxAnswers
         /\ \E outcome \in {<<r>> : r \in BackendResponses} \cup {<<>>} :
              threads' = [threads EXCEPT ![t].answered =
                             DictSet(@, n, [outcome |-> outcome,
                                            serial |-> NextAnswer(n)])]
    /\ UNCHANGED <<ctor, mode, max_nodes_to_query, weight, node_name, nodes>>

\* The as_completed loop of thread t handles a completed future under the
\* lock (lines 209-228).
FetchApply(t) ==
    /\ threads[t].pc = "refresh"
    /\ \E n \in threads[t].pending \cap DOMAIN threads[t].answered :
         LET outcome == threads[t].answered[n].outcome
         IN  IF outcome # <<>>
             THEN /\ nodes' = [nodes EXCEPT ![n] = ApplyRefreshSuccess(@, outcome[1])]
                  /\ threads' = [threads EXCEPT ![t] = AfterFetch(@, n)]
             ELSE /\ nodes' = [nodes EXCEPT ![n] = ApplyRefreshFailure(@, FetchError)]
                  /\ threads' = [threads EXCEPT ![t] =
                         AfterFetch([@ EXCEPT !.errors =
                                        DictSet(@, NodeName(n), FetchError)], n)]
    /\ UNCHANGED <<ctor, mode, max_nodes_to_query, weight, node_name>>

InitOverlap ==
    /\ ctor = Constructed
    /\ mode = LOCAL_ONLY
    /\ max_nodes_to_query = 2
    /\ weight = [n \in Nodes |-> 1]
    /\ node_name = [n \in Nodes |-> DefaultName(n)]
    /\ nodes \in [Nodes -> InitialNodeStates]
    /\ ~(\A n \in Nodes : DOMAIN nodes[n].models = {})
    /\ threads = [t \in Threads |-> IdleThread("none")]

NextOverlap ==
    \E t \in Threads :
        \/ RefreshCall(t)
        \/ FetchAnswered(t)
        \/ FetchApply(t)
        \/ RefreshReturn(t)

SpecOverlap == InitOverlap /\ [][NextOverlap]_vars

\* ------------------------------------------------------------------------
\* Specification for the lock: `with self._lock` is entered in a step of
\* its own, which waits until no thread owns the lock; the block and the
\* release at its exit are the next step of the thread.  Program counters
\* are named after the line of the `with` statement.
\* ------------------------------------------------------------------------

\* The `with self._lock` statements, and the thread's counter inside each.
Inside ==
    [select_265 |-> "in_265", select_270 |-> "in_270", select_282 |-> "in_282",
     increment_318 |-> "in_318", decrement_325 |-> "in_325",
     refresh_196 |-> "in_196", refresh_213 |-> "in_213",
     refresh_218 |-> "in_218", combined_335 |-> "in_335"]

LockPoints == DOMAIN Inside

LockFree == \A u \in Threads : ~threads[u].holds

\* threading.Lock.acquire at the entry of a `with self._lock` block: blocks
\* while any thread, the caller included, owns the lock.
LockAcquire(t) ==
    /\ threads[t].pc \in LockPoints
    /\ LockFree
    /\ threads' = [threads EXCEPT ![t] =
                      [@ EXCEPT !.pc = Inside[@], !.holds = TRUE]]
    /\ UNCHANGED <<ctor, mode, max_nodes_to_query, weight, node_name, nodes>>

\* image(), chat() or audio() is called: _dispatch enters the selector.
LockStartCall(t) ==
    /\ threads[t].pc = "idle"
    /\ threads' = [threads EXCEPT ![t] =
                      [IdleThread("none") EXCEPT !.pc = "select_265"]]
    /\ UNCHANGED <<ctor, mode, max_nodes_to_query, weight, node_name, nodes>>

\* Entry of refresh_nodes(node_names=names), to return to ret.
EnterRefresh(th, names, ret) ==
    [th EXCEPT !.pc = "refresh_196", !.node_names = <<names>>, !.ret = ret,
               !.pending = {}, !.cands = <<>>]

\* The threads that call models() and refresh_nodes() besides image(),
\* chat() and audio().
Refreshers == {"t2"}

\* models() or refresh_nodes() is called.
LockStartRefresh(t) ==
    /\ threads[t].pc = "idle"
    /\ t \in Refreshers
    /\ \E ret \in {"combined_335", "idle"} :
         threads' = [threads EXCEPT ![t] =
                        EnterRefresh(IdleThread("none"), {}, ret)]
    /\ UNCHANGED <<ctor, mode, max_nodes_to_query, weight, node_name, nodes>>

\* Lines 275-280 once candidates have been found (the lock is released).
LockAfterCollect(th, candidates) ==
    LET left == [th EXCEPT !.holds = FALSE, !.cands = candidates]
    IN  CASE mode = QUERY_EVERYTIME ->
               EnterRefresh(left, {NodeName(n) : n \in SeqToSet(candidates)},
                            "select_282")
          [] mode = CONTROLLED_QUERYING -> [left EXCEPT !.pc = "rank_278"]
          [] OTHER -> [left EXCEPT !.pc = "select_282", !.cands = <<>>]

\* Variant: the forced refresh is called without leaving the locked block.
LockCollectFirstKeepsLock(t) ==
    /\ threads[t].pc = "in_265"
    /\ LET candidates == Candidates(nodes, threads[t].model_id)
       IN  threads' = [threads EXCEPT ![t] =
               IF candidates = <<>>
               THEN EnterRefresh(@, {}, "select_270")
               ELSE LockAfterCollect(@, candidates)]
    /\ UNCHANGED <<ctor, mode, max_nodes_to_query, weight, node_name, nodes>>

\* Lines 265-269: the first collection, then the lock is released.
LockCollectFirst(t) ==
    /\ threads[t].pc = "in_265"
    /\ LET candidates == Candidates(nodes, threads[t].model_id)
       IN  threads' = [threads EXCEPT ![t] =
               IF candidates = <<>>
               THEN EnterRefresh([@ EXCEPT !.holds = FALSE], {}, "select_270")
               ELSE LockAfterCollect(@, candidates)]
    /\ UNCHANGED <<ctor, mode, max_nodes_to_query, weight, node_name, nodes>>

\* Lines 270-273: the second collection; the raise comes after the block.
LockCollectAgain(t) ==
    /\ threads[t].pc = "in_270"
    /\ LET candidates == Candidates(nodes, threads[t].model_id)
       IN  threads' = [threads EXCEPT ![t] =
               IF candidates = <<>>
               THEN IdleThread("NoCandidate")
               ELSE LockAfterCollect(@, candidates)]
    /\ UNCHANGED <<ctor, mode, max_nodes_to_query, weight, node_name, nodes>>

\* Lines 278-280: the ranking, without the lock.
LockRank(t) ==
    /\ threads[t].pc = "rank_278"
    /\ LET th == threads[t]
           to_query == ToQuery(th.cands, nodes, weight, th.model_id,
                               max_nodes_to_query)
       IN  threads' = [threads EXCEPT ![t] =
               EnterRefresh(th, {NodeName(n) : n \in SeqToSet(to_query)},
                            "select_282")]
    /\ UNCHANGED <<ctor, mode, max_nodes_to_query, weight, node_name, nodes>>

\* Lines 282-287: the final collection; the raise and the return both leave
\* the block inside which they stand, which releases the lock.
LockPick(t) ==
    /\ threads[t].pc = "in_282"
    /\ LET candidates == Candidates(nodes, threads[t].model_id)
       IN  threads' = [threads EXCEPT ![t] =
               IF candidates = <<>>
               THEN IdleThread("NoCandidate")
               ELSE [@ EXCEPT !.pc = "increment_318", !.holds = FALSE,
                              !.node = MinByScore(candidates, nodes, weight,
                                                  threads[t].model_id)]]
    /\ UNCHANGED <<ctor, mode, max_nodes_to_query, weight, node_name, nodes>>

\* Lines 318-322.
LockIncrement(t) ==
    /\ threads[t].pc = "in_318"
    /\ nodes' = [nodes EXCEPT ![threads[t].node] =
                    _increment_inflight(@, threads[t].model_id)]
    /\ threads' = [threads EXCEPT ![t] =
                      [@ EXCEPT !.pc = "invoke_241", !.holds = FALSE]]
    /\ UNCHANGED <<ctor, mode, max_nodes_to_query, weight, node_name>>

\* Lines 240-250 and 252-262: the node client operation returns or raises
\* (a returned stream is consumed to its end or closed, lines 254-262); each
\* way leads to _decrement_inflight.
LockInvoke(t) ==
    /\ threads[t].pc = "invoke_241"
    /\ \E outcome \in {"returned", "BackendError"} :
         threads' = [threads EXCEPT ![t] =
                        [@ EXCEPT !.pc = "decrement_325", !.outcome = outcome]]
    /\ UNCHANGED <<ctor, mode, max_nodes_to_query, weight, node_name, nodes>>

\* Lines 325-332.
LockDecrement(t) ==
    /\ threads[t].pc = "in_325"
    /\ nodes' = [nodes EXCEPT ![threads[t].node] =
                    _decrement_inflight(@, threads[t].model_id)]
    /\ threads' = [threads EXCEPT ![t] = IdleThread(@.outcome)]
    /\ UNCHANGED <<ctor, mode, max_nodes_to_query, weight, node_name>>

\* The return of refresh_nodes to its caller (lines 201, 229).
LockRefreshReturn(th) ==
    IF th.ret = "idle" THEN IdleThread("returned")
    ELSE [th EXCEPT !.pc = th.ret, !.holds = FALSE, !.pending = {},
                    !.node_names = <<>>, !.node = IdleThread("none").node,
                    !.errors = EmptyDict]

\* Lines 196-207: the node list is read under the lock; then the fetches
\* are submitted.
LockReadNodes(t) ==
    /\ threads[t].pc = "in_196"
    /\ LET selected == SelectedNodes(threads[t].node_names[1])
       IN  threads' = [threads EXCEPT ![t] =
               IF selected = {} THEN LockRefreshReturn(@)
               ELSE [@ EXCEPT !.pc = "as_completed_208", !.holds = FALSE,
                              !.pending = selected, !.node_names = <<>>]]
    /\ UNCHANGED <<ctor, mode, max_nodes_to_query, weight, node_name, nodes>>

\* The future as_completed yields next.  The backends answer in the order
\* of the node list here; SpecOverlap has the other orders.
NextCompleted(pending) ==
    CHOOSE n \in pending : \A k \in pending : n <= k

\* Lines 208-212, 217: as_completed yields a future whose node client call
\* has returned (line 217) or raised (line 212).  The response a future
\* holds is drawn where it is applied.
LockFutureDone(t) ==
    /\ threads[t].pc = "as_completed_208"
    /\ \E line \in {"refresh_213", "refresh_218"} :
         threads' = [threads EXCEPT ![t] =
             [@ EXCEPT !.pc = line,
                       !.node = NextCompleted(threads[t].pending)]]
    /\ UNCHANGED <<ctor, mode, max_nodes_to_query, weight, node_name, nodes>>

\* After one future has been handled: the loop goes on or refresh_nodes
\* returns.
LockAfterFuture(th) ==
    IF th.pending = {th.node} THEN LockRefreshReturn(th)
    ELSE [th EXCEPT !.pc = "as_completed_208", !.holds = FALSE,
                    !.pending = @ \ {th.node},
                    !.node = IdleThread("none").node]

\* Lines 213-216 and 218-228: the locked block, then errors[node.name] on
\* the failure path.
LockApply(t) ==
    /\ threads[t].pc \in {"in_213", "in_218"}
    /\ LET n == threads[t].node
       IN  \E response \in BackendResponses :
             nodes' = [nodes EXCEPT ![n] =
                IF threads[t].pc = "in_213"
                THEN ApplyRefreshFailure(@, FetchError)
                ELSE ApplyRefreshSuccess(@, response)]
    /\ threads' = [threads EXCEPT ![t] =
          LockAfterFuture(
              IF @.pc = "in_213"
              THEN [@ EXCEPT !.errors = DictSet(@, NodeName(threads[t].node),
                                                FetchError)]
              ELSE @)]
    /\ UNCHANGED <<ctor, mode, max_nodes_to_query, weight, node_name>>

\* Lines 335-381 and the return of models().
LockCombine(t) ==
    /\ threads[t].pc = "in_335"
    /\ threads' = [threads EXCEPT ![t] = IdleThread("returned")]
    /\ UNCHANGED <<ctor, mode, max_nodes_to_query, weight, node_name, nodes>>

LockThreadNext(t) ==
    \/ LockStartCall(t)
    \/ LockStartRefresh(t)
    \/ LockAcquire(t)
    \/ LockCollectFirst(t)
    \/ LockCollectAgain(t)
    \/ LockRank(t)
    \/ LockPick(t)
    \/ LockIncrement(t)
    \/ LockInvoke(t)
    \/ LockDecrement(t)
    \/ LockReadNodes(t)
    \/ LockFutureDone(t)
    \/ LockApply(t)
    \/ LockCombine(t)

InitLock ==
    /\ ctor = Constructed
    /\ mode \in NodeQueryMode
    /\ max_nodes_to_query = 1
    /\ weight = [n \in Nodes |-> 1]
    /\ node_name = [n \in Nodes |-> DefaultName(n)]
    /\ nodes \in [Nodes -> InitialNodeStates]
    /\ ~(\A n \in Nodes : DOMAIN nodes[n].models = {})
    /\ threads = [t \in Threads |-> IdleThread("none")]

NextLock == \E t \in Threads : LockThreadNext(t)

\* Fair scheduling: a thread that can take a step again and again takes one
\* in the end.  A thread outside a locked block can always take its step
\* except when it waits for the lock, where it can each time the lock is
\* free; node client calls return or raise in the end (LockInvoke,
\* LockFutureDone).
SpecLock ==
    /\ InitLock
    /\ [][NextLock]_vars
    /\ \A t \in Threads : SF_vars(LockThreadNext(t))

\* ------------------------------------------------------------------------
\* Properties of the aggregation and of the indexing
\* ------------------------------------------------------------------------

\* The step in which models() aggregates the caches.
CombineStep(t) ==
    threads[t].pc = "models_combine" /\ threads'[t].pc = "models_return"

\* Nodes whose cache holds the model.
Holders(id) == {n \in Nodes : id \in DOMAIN nodes[n].models}

RECURSIVE CachedActive(_, _)
CachedActive(id, S) ==
    IF S = {} THEN 0
    ELSE LET n == CHOOSE x \in S : TRUE
         IN  nodes[n].models[id].active_requests + CachedActive(id, S \ {n})

\* Number of places of a list that hold an entry of the model.
Places(list, id) == Cardinality({i \in DOMAIN list : list[i].model_id = id})

\* C21: in the response of models() each model of the caches is one summary
\* entry (the same entry wherever it is listed, at most once in a list),
\* models of no cache are not listed, and the entry's active_requests is the
\* sum of the cached active_requests of the nodes whose cache holds it.
C21_ActiveRequestsSummed ==
    [][\A t \in Threads : CombineStep(t) =>
          LET result == threads'[t].result[1]
          IN  \A id \in ModelIds :
                LET entries == {e \in ResultEntries(result) : e.model_id = id}
                IN  /\ Holders(id) = {} => entries = {}
                    /\ Holders(id) # {} =>
                          /\ Cardinality(entries) = 1
                          /\ \A modality \in Modality :
                                Places(result[modality], id) <= 1
                          /\ \A e \in entries :
                                e.active_requests
                                   = CachedActive(id, Holders(id))]_vars

\* C21 witness: models() is about to return an entry for m1 whose
\* active_requests is the sum of what two nodes cache, both above zero.
C21_Witness ==
    \E t \in Threads :
        /\ threads[t].pc = "models_return"
        /\ Holders("m1") = Nodes
        /\ \A n \in Nodes : nodes[n].models["m1"].active_requests > 0
        /\ \E e \in ResultEntries(threads[t].result[1]) :
              /\ e.model_id = "m1"
              /\ e.active_requests = CachedActive("m1", Nodes)
              /\ e.active_requests >= 2

\* Rank of an allocation status in the promotion order of the aggregation.
Priority(status) ==
    CASE status = ALLOCATED -> 3
      [] status = QUEUE -> 2
      [] status = DEALLOCATED -> 1

\* The node list in the opposite order.
Reversed(ns) == [n \in Nodes |-> ns[Cardinality(Nodes) + 1 - n]]

\* Status and flags of every entry of an aggregation.
StatusAndFlags(response) ==
    {<<e.model_id, e.allocation_status, e.is_supported,
       e.supports_concurrent_requests>> : e \in ResultEntries(response)}

\* C22: in the response of models() a model's allocation_status is the
\* status of highest priority (ALLOCATED > QUEUE > DEALLOCATED) among the
\* nodes whose cache holds it, its is_supported and
\* supports_concurrent_requests are the OR over those nodes, and the same
\* statuses and flags come out when the nodes are walked in the opposite
\* order.
C22_StatusAndFlagsMerged ==
    [][\A t \in Threads : CombineStep(t) =>
          LET result == threads'[t].result[1]
          IN  /\ \A e \in ResultEntries(result) :
                    LET id == e.model_id
                        cached(n) == nodes[n].models[id]
                    IN  /\ \E n \in Holders(id) :
                              e.allocation_status = cached(n).allocation_status
                        /\ \A n \in Holders(id) :
                              Priority(cached(n).allocation_status)
                                 <= Priority(e.allocation_status)
                        /\ e.is_supported
                              = (\E n \in Holders(id) : cached(n).is_supported)
                        /\ e.supports_concurrent_requests
                              = (\E n \in Holders(id) :
                                    cached(n).supports_concurrent_requests)
              /\ StatusAndFlags(result)
                    = StatusAndFlags(_combined_models_response(Reversed(nodes)))]_vars

\* C22 witness: models() is about to return an entry for m1 that has the
\* status QUEUE of the second node, above the first node's DEALLOCATED, and
\* both flags true although each node reports only one of them.
C22_Witness ==
    \E t \in Threads :
        /\ threads[t].pc = "models_return"
        /\ Holders("m1") = Nodes
        /\ nodes[1].models["m1"].allocation_status = DEALLOCATED
        /\ nodes[2].models["m1"].allocation_status = QUEUE
        /\ ~nodes[1].models["m1"].is_supported
        /\ nodes[2].models["m1"].is_supported
        /\ nodes[1].models["m1"].supports_concurrent_requests
        /\ ~nodes[2].models["m1"].supports_concurrent_requests
        /\ \E e \in ResultEntries(threads[t].result[1]) :
              /\ e.model_id = "m1"
              /\ e.allocation_status = QUEUE
              /\ e.is_supported
              /\ e.supports_concurrent_requests

\* The one node whose inventory reaches the aggregation: it has been
\* fetched with success and no other node caches a model.
OnlySource(n) ==
    /\ nodes[n].last_response # <<>>
    /\ \A k \in Nodes \ {n} : nodes[k].models = EmptyDict

\* The entries of the model in a response, in the order of the lists
\* image, audio, video, text.
Occurrences(response, id) ==
    LET OfModel(p) == p.model.model_id = id
    IN  SelectSeq(GroupedLists(response), OfModel)

\* The model's first entry in a response, with the capabilities of its
\* first entry that has any.
FirstOccurrence(response, id) ==
    LET HasCapabilities(p) == p.model.capabilities # <<>>
        having == SelectSeq(Occurrences(response, id), HasCapabilities)
        first == Occurrences(response, id)[1].model
    IN  IF having = <<>> THEN first
        ELSE [first EXCEPT !.capabilities = having[1].model.capabilities]

ResponseIds(response) ==
    {e.model_id : e \in ResultEntries(response)}

\* C23 as claimed: for a single node, any inventory response passed through
\* indexing and aggregation comes back with the same model_ids and the same
\* per-model fields, each model listed in exactly the buckets that are
\* output modalities of its capabilities.
C23_RoundTripAsClaimed ==
    [][\A t \in Threads, n \in Nodes : (CombineStep(t) /\ OnlySource(n)) =>
          LET response == nodes[n].last_response[1]
              result == threads'[t].result[1]
          IN  /\ ResponseIds(result) = ResponseIds(response)
              /\ ResultEntries(result) = ResultEntries(response)
              /\ \A e \in ResultEntries(result), modality \in Modality :
                    (Places(result[modality], e.model_id) = 1)
                       <=> (modality \in CapabilityOutputs(e.capabilities))]_vars

\* C23: for a single node, any inventory response passed through indexing
\* and aggregation comes back with the same model_ids, each with the fields
\* of its first entry in the response (capabilities from its first entry
\* that has any), listed once in exactly the lists the response listed it
\* in.
C23_RoundTrip ==
    [][\A t \in Threads, n \in Nodes : (CombineStep(t) /\ OnlySource(n)) =>
          LET response == nodes[n].last_response[1]
              result == threads'[t].result[1]
          IN  /\ ResponseIds(result) = ResponseIds(response)
              /\ \A e \in ResultEntries(result) :
                    e = FirstOccurrence(response, e.model_id)
              /\ \A id \in ResponseIds(response), modality \in Modality :
                    Places(result[modality], id)
                       = (IF Places(response[modality], id) > 0 THEN 1 ELSE 0)]_vars

\* C23 witness: models() is about to return the inventory of a single node
\* whose response listed m1 under image without capabilities and under text
\* with other fields; the result lists the image entry, with the
\* capabilities of the text entry, under image and text.
C23_Witness ==
    \E t \in Threads, n \in Nodes :
        /\ threads[t].pc = "models_return"
        /\ OnlySource(n)
        /\ LET response == nodes[n].last_response[1]
               result == threads[t].result[1]
           IN  /\ Len(response.image) = 1 /\ Len(response.text) = 1
               /\ response.image[1].model_id = "m1"
               /\ response.text[1].model_id = "m1"
               /\ response.image[1].capabilities = <<>>
               /\ response.text[1].active_requests
                     # response.image[1].active_requests
               /\ result.image = result.text
               /\ Len(result.image) = 1
               /\ result.image[1].active_requests
                     = response.image[1].active_requests
               /\ result.image[1].capabilities = response.text[1].capabilities

\* ------------------------------------------------------------------------
\* Properties of refresh_nodes and of the lock
\* ------------------------------------------------------------------------

\* The step in which thread t handles the completed fetch of node n.
FetchHandled(t, n) ==
    /\ threads[t].pc = "refresh"
    /\ n \in threads[t].pending
    /\ threads'[t] # threads[t]
    /\ threads'[t].pc = "refresh" => n \notin threads'[t].pending

\* After the step, thread t holds the map of its refresh_nodes call: the
\* call is running or has returned it to a caller that keeps it.
MapInHand(t) ==
    threads'[t].pc \in {"refresh", "refresh_return", "ctor", "models_combine"}

\* C24: a failed fetch of node N sets N.last_refresh_error to the error text
\* and changes nothing else of N (models, categories_by_model_id,
\* supported_model_count, remote_active_total, last_refresh_ts), and adds
\* N's name with the text to the map of the call; the map starts empty and
\* a successful fetch adds nothing, so the returned map holds exactly the
\* targets whose fetch failed.
C24_FailedFetchKeepsCache ==
    [][\A t \in Threads :
         /\ \A n \in DOMAIN nodes : FetchHandled(t, n) =>
               LET failed == nodes'[n].last_refresh_error # "none"
               IN  /\ failed => nodes'[n] = [nodes[n] EXCEPT
                                               !.last_refresh_error = FetchError]
                   /\ MapInHand(t) =>
                         threads'[t].errors
                            = IF failed
                              THEN DictSet(threads[t].errors, NodeName(n), FetchError)
                              ELSE threads[t].errors
         /\ (threads[t].pc # "refresh" /\ threads'[t].pc = "refresh")
               => threads'[t].errors = EmptyDict
         /\ (threads[t].pc = "idle" /\ threads'[t].pc = "refresh_return")
               => threads'[t].errors = EmptyDict
         /\ threads'[t].pc = "refresh_return" =>
               \A name \in DOMAIN threads'[t].errors :
                  \E n \in Nodes : /\ NodeName(n) = name
                                   /\ threads'[t].fetches[n] = 1]_vars

\* C24 witness: refresh_nodes is returning a map that names one of its two
\* targets; that node carries the error text and still has the inventory
\* and the time of an earlier fetch, and the other target has no error.
C24_Witness ==
    \E t \in Threads, n \in Nodes, k \in Nodes :
        /\ threads[t].pc = "refresh_return"
        /\ n # k
        /\ threads[t].fetches[n] = 1 /\ threads[t].fetches[k] = 1
        /\ DOMAIN threads[t].errors = {NodeName(n)}
        /\ threads[t].errors[NodeName(n)] = FetchError
        /\ nodes[n].last_refresh_error = FetchError
        /\ nodes[n].models # EmptyDict
        /\ nodes[n].last_refresh_ts = TimeNow
        /\ nodes[k].last_refresh_error = "none"

\* The cached fields of a node that a refresh derives from `models`.
DerivedRight(node) ==
    /\ node.supported_model_count
          = Cardinality({id \in DOMAIN node.models : node.models[id].is_supported})
    /\ node.remote_active_total = SumActive(node.models, DOMAIN node.models)
    /\ DOMAIN node.models = DOMAIN node.categories_by_model_id

CachedFields(node) ==
    <<node.models, node.categories_by_model_id, node.supported_model_count,
      node.remote_active_total>>

\* C25: in every state between locked blocks, each node's
\* supported_model_count and remote_active_total are the count of supported
\* entries and the sum of active_requests of its models, and models and
\* categories_by_model_id have the same keys; a step that changes any of
\* them replaces them all by the indexing of one response and clears
\* last_refresh_error.
C25_DerivedFieldsConsistent ==
    [][\A n \in (DOMAIN nodes) \cap (DOMAIN nodes') :
         /\ DerivedRight(nodes[n])
         /\ DerivedRight(nodes'[n])
         /\ CachedFields(nodes'[n]) # CachedFields(nodes[n]) =>
               /\ nodes'[n].last_response # <<>>
               /\ LET indexed == _index_models(nodes'[n].last_response[1])
                  IN  /\ nodes'[n].models = indexed.models
                      /\ nodes'[n].categories_by_model_id = indexed.categories
               /\ nodes'[n].last_refresh_error = "none"]_vars

\* C25 witness: a node that carried an error has been refreshed with an
\* inventory of two models, one of them busy.
C25_Witness ==
    \E n \in DOMAIN nodes :
        /\ Cardinality(DOMAIN nodes[n].models) = 2
        /\ nodes[n].supported_model_count = 2
        /\ nodes[n].remote_active_total > 0
        /\ nodes[n].last_refresh_error = "none"
        /\ \E t \in Threads : /\ threads[t].pc = "refresh_return"
                              /\ threads[t].fetches[n] = 1
                              /\ threads[t].errors = EmptyDict

\* C26 as claimed: a refresh_nodes call that has just submitted its fetches
\* has one fetch out to every registered node when node_names is omitted or
\* empty, and otherwise to exactly the registered nodes whose name is in
\* node_names.
C26_RefreshTargets ==
    \A t \in Threads :
        (threads[t].pc = "refresh" /\ threads[t].node_names # <<>>) =>
            LET node_names == threads[t].node_names[1]
            IN  threads[t].pending
                   = IF node_names = {} THEN DOMAIN nodes
                     ELSE {n \in DOMAIN nodes : NodeName(n) \in node_names}

\* Nodes on which a client call issued by thread t is in progress: the
\* fetches of its refresh_nodes that have not completed, or the operation
\* it has dispatched.
CallsInProgress(t) ==
    IF threads[t].pc = "refresh" THEN threads[t].pending
    ELSE IF threads[t].pc = "invoking" THEN {threads[t].node}
    ELSE {}

\* A step of thread t that writes node fields (which it does in a locked
\* block).
WritesNodes(t) == threads'[t] # threads[t] /\ nodes' # nodes

LowestScoredIn(ns, T, cands, m, k) ==
    LET score(n) == _node_score(ns[n], weight[n], m)
    IN  /\ T \subseteq SeqToSet(cands)
        /\ Cardinality(T) = k
        /\ \A i \in DOMAIN cands, j \in DOMAIN cands :
              (cands[i] \in T /\ cands[j] \notin T) =>
                 \/ ScoreLess(score(cands[i]), score(cands[j]))
                 \/ /\ ~ScoreLess(score(cands[j]), score(cands[i]))
                    /\ i < j

\* C28 as claimed: the ranking of CONTROLLED_QUERYING reads the node fields
\* under the lock, so it ranks the candidates by the fields as they are
\* before or after the locked block of any other thread, never by a mix.
C28_RankingReadsUnderLock ==
    [][\A t \in Threads :
          (threads[t].pc = "sel_rank" /\ threads'[t].pc = "refresh") =>
             \E ns \in {nodes, nodes'} :
                LowestScoredIn(ns, threads'[t].pending, threads[t].cands,
                               threads[t].model_id,
                               Min(max_nodes_to_query, Len(threads[t].cands)))]_vars

\* ------------------------------------------------------------------------
\* Properties of the accounting and the scoring functions
\* ------------------------------------------------------------------------

\* A call of _decrement_inflight for a model the first node has no entry
\* for.
DecrementOnZero(t) ==
    /\ threads'[t].outcome = "_decrement_inflight"
    /\ threads'[t] # threads[t] \/ nodes' # nodes
    /\ threads'[t].model_id \notin DOMAIN nodes[1].local_inflight_by_model

\* C29 as claimed: _decrement_inflight for a model with no entry in
\* local_inflight_by_model changes neither local_inflight_total nor
\* local_inflight_by_model.
C29_DecrementOnZeroAsClaimed ==
    [][\A t \in Threads : DecrementOnZero(t) =>
          /\ nodes'[1].local_inflight_total = nodes[1].local_inflight_total
          /\ nodes'[1].local_inflight_by_model = nodes[1].local_inflight_by_model]_vars

\* C29: _decrement_inflight for a model with no entry in
\* local_inflight_by_model leaves local_inflight_by_model and every other
\* field as they are, except local_inflight_total, which it lowers by one
\* unless it is zero.
C29_DecrementOnZero ==
    [][\A t \in Threads : DecrementOnZero(t) =>
          nodes'[1] = [nodes[1] EXCEPT
                         !.local_inflight_total = IF @ = 0 THEN 0 ELSE @ - 1]]_vars

\* C29 witness: the call was made for m1 while only m2 was counted; the
\* entry of m2 is still there and the total, which was positive, is now
\* lower than the sum of the entries.
C29_Witness ==
    /\ threads["t1"].outcome = "_decrement_inflight"
    /\ threads["t1"].model_id = "m1"
    /\ DOMAIN nodes[1].local_inflight_by_model = {"m2"}
    /\ nodes[1].local_inflight_by_model["m2"] = 2
    /\ nodes[1].local_inflight_total = 1

\* The score of a supported entry, in hundredths, term by term.
ScoreTerms(node, w, model_id) ==
    LET model == node.models[model_id]
        load == model.active_requests
                   + (IF model_id \in DOMAIN node.local_inflight_by_model
                      THEN node.local_inflight_by_model[model_id] ELSE 0)
        load_score == IF model.supports_concurrent_requests
                      THEN 100 * load ELSE 1000 * load
        penalty == CASE model.allocation_status = ALLOCATED -> 0
                     [] model.allocation_status = DEALLOCATED -> 100
                     [] model.allocation_status = QUEUE -> 400
        scarcity_bias == IF node.supported_model_count > 1
                         THEN node.supported_model_count ELSE 1
        node_load_bias == 10 * node.local_inflight_total
        remote_load_bias == node.remote_active_total
        weight_bias == IF w > 0 THEN 0 - 25 * w ELSE 0
    IN  load_score + penalty + scarcity_bias + node_load_bias
           + remote_load_bias + weight_bias

\* C30: for a supported model, _node_score returns load_score +
\* status_penalty + scarcity_bias + node_load_bias + remote_load_bias +
\* weight_bias with the terms as listed (load times 10 iff non-concurrent,
\* penalty 0 / 1 / 4, 0.01 per supported model and at least 0.01, 0.1 per
\* local in-flight call, 0.01 per remote active request, -0.25 per unit of
\* non-negative weight), and a negative weight scores like weight 0.
C30_ScoreFormula ==
    [][\A t \in Threads :
          (/\ threads'[t].outcome = "_node_score"
           /\ threads'[t] # threads[t]
           /\ _is_model_supported(nodes[1], threads'[t].model_id)) =>
             LET model_id == threads'[t].model_id
                 score == threads'[t].result[1]
             IN  /\ score.finite
                 /\ score.value = ScoreTerms(nodes[1], weight[1], model_id)
                 /\ weight[1] < 0 =>
                       score = _node_score(nodes[1], 0, model_id)]_vars

\* C30 witness: the score of a non-concurrent, queued entry with two remote
\* requests was taken on a node of negative weight that has two calls in
\* flight, one of them for the model: 30 + 4 + 0.02 + 0.2 + 0.05 - 0.
C30_Witness ==
    /\ threads["t1"].outcome = "_node_score"
    /\ threads["t1"].model_id = "m1"
    /\ weight[1] < 0
    /\ nodes[1].local_inflight_total = 2
    /\ DictGet(nodes[1].local_inflight_by_model, "m1", 0) = 1
    /\ nodes[1].supported_model_count = 2
    /\ nodes[1].remote_active_total = 5
    /\ threads["t1"].result = <<Finite(3427)>>

\* ------------------------------------------------------------------------
\* Properties of the selection
\* ------------------------------------------------------------------------

\* Two candidates that agree in every term of the score for model m except
\* the supported-model count, of which a has the smaller one.
ThinnerOtherwiseAlike(a, b, m) ==
    /\ Supported(a, m) /\ Supported(b, m)
    /\ Active(a, m) = Active(b, m)
    /\ InFlight(a, m) = InFlight(b, m)
    /\ nodes[a].models[m].supports_concurrent_requests
         = nodes[b].models[m].supports_concurrent_requests
    /\ nodes[a].models[m].allocation_status = nodes[b].models[m].allocation_status
    /\ nodes[a].local_inflight_total = nodes[b].local_inflight_total
    /\ nodes[a].remote_active_total = nodes[b].remote_active_total
    /\ Max(weight[a], 0) = Max(weight[b], 0)
    /\ nodes[a].supported_model_count < nodes[b].supported_model_count

\* C31 as claimed: of two candidates alike but for the supported-model
\* count, the one that supports fewer models is not chosen.
C31_FullerCatalogPreferred ==
    [][\A t \in Threads :
         PickStep(t) =>
           \A a \in Nodes, b \in Nodes :
              ThinnerOtherwiseAlike(a, b, threads[t].model_id)
                 => threads'[t].node # a]_vars

\* C31: of two candidates alike but for the supported-model count, the one
\* that supports more models is not chosen.
C31_ThinnerCatalogPreferred ==
    [][\A t \in Threads :
         PickStep(t) =>
           \A a \in Nodes, b \in Nodes :
              ThinnerOtherwiseAlike(a, b, threads[t].model_id)
                 => threads'[t].node # b]_vars

\* C31 witness: the second node, which supports one model, has been chosen
\* over the first, which is alike but supports two.
C31_Witness ==
    \E t \in Threads :
        /\ threads[t].pc = "picked"
        /\ threads[t].node = 2
        /\ ThinnerOtherwiseAlike(2, 1, threads[t].model_id)

\* The step in which the routed call of thread t finds no candidate in its
\* first collection.
FirstCollectionEmpty(t) == threads'[t].forced /\ ~threads[t].forced

\* The step in which the routed call of thread t collects the candidates
\* again after the refresh it forced.
RecollectStep(t) ==
    threads[t].pc = "sel_recollect" /\ threads'[t] # threads[t]

\* C32 as claimed: a routed call whose first collection is empty submits one
\* fetch to every node and nothing else; when they are done it collects
\* again, and goes on to the mode-dependent refresh or the pick if some
\* cache now lists the model as supported, and otherwise fails with the
\* no-candidate error, no counter changed and no operation invoked.
C32_ForcedRefreshThenRecollect ==
    [][\A t \in Threads :
         /\ FirstCollectionEmpty(t) =>
               /\ NoneSupports(threads'[t].model_id)
               /\ threads'[t].pc = "refresh"
               /\ threads'[t].ret = "sel_recollect"
               /\ threads'[t].pending = DOMAIN nodes
               /\ threads'[t].fetches = [n \in Nodes |-> 1]
               /\ nodes' = nodes
         /\ RecollectStep(t) =>
               /\ \A n \in Nodes : threads[t].fetches[n] = 1
               /\ IF NoneSupports(threads[t].model_id)
                  THEN /\ threads'[t] = IdleThread("NoCandidate")
                       /\ nodes' = nodes
                  ELSE /\ threads'[t].pc \in {"refresh", "sel_rank", "sel_pick"}
                       /\ threads'[t].outcome = "none"
                       /\ SeqToSet(threads'[t].cands)
                             = {n \in Nodes : Supported(n, threads[t].model_id)}]_vars

\* The final locked step of the selector, taken by thread t.
FinalCollection(t) ==
    threads[t].pc = "sel_pick" /\ threads'[t] # threads[t]

\* C33 as claimed: the candidates that the final locked step of a selection
\* finds are among those the selection collected before its mode-dependent
\* refresh, whatever other threads do in between.
C33_CandidatesOnlyShrink ==
    [][\A t \in Threads :
         FinalCollection(t) =>
            {n \in Nodes : Supported(n, threads[t].model_id)}
               \subseteq SeqToSet(threads[t].cands)]_vars

\* The step in which thread t, inside the selector, handles the failure of
\* its fetch of node n.
FetchFailedInSelection(t, n) ==
    /\ InSelection(t)
    /\ FetchHandled(t, n)
    /\ nodes'[n].last_refresh_error = FetchError

\* C34: a fetch that fails during the selection of a routed call changes no
\* node's support for any model and does not end the call; and the final
\* locked step routes the call to a node whose cache lists the model as
\* supported whenever there is one.
C34_FailedFetchKeepsCandidates ==
    [][\A t \in Threads :
         /\ \A n \in Nodes : FetchFailedInSelection(t, n) =>
               /\ \A k \in Nodes, m \in ModelIds :
                     Supported(k, m)' <=> Supported(k, m)
               /\ nodes'[n].models = nodes[n].models
               /\ threads'[t].pc # "idle"
               /\ threads'[t].outcome = "none"
         /\ (FinalCollection(t) /\ ~NoneSupports(threads[t].model_id)) =>
               /\ threads'[t].pc = "picked"
               /\ Supported(threads'[t].node, threads[t].model_id)]_vars

\* C34 witness: under QUERY_EVERYTIME the fetches of both candidates have
\* failed, and the call is at its final locked step with both nodes still
\* listing the model as supported.
C34_Witness ==
    \E t \in Threads :
        /\ mode = QUERY_EVERYTIME
        /\ threads[t].pc = "sel_pick"
        /\ Len(threads[t].cands) = 2
        /\ \A n \in Nodes :
              /\ threads[t].fetches[n] = 1
              /\ nodes[n].last_refresh_error = FetchError
              /\ Supported(n, threads[t].model_id)

\* The fields of a node that only refresh_nodes writes.
Cache(node) ==
    [node EXCEPT !.local_inflight_total = 0, !.local_inflight_by_model = EmptyDict]

\* What the fetch of a node can leave in its state.
FetchOutcomes(node) ==
    {ApplyRefreshSuccess(node, response) : response \in InitResponses}
    \cup {ApplyRefreshFailure(node, FetchError)}

\* C35: a running refresh_nodes handles the fetches it submitted one at a
\* time, applying to the node its response or its error, and returns in the
\* step that handles the last of them; a thread that is not inside
\* refresh_nodes has no fetch outstanding, and no cache is written except
\* by a running refresh_nodes handling its fetch of that node.
C35_ReturnsAfterAllFetches ==
    [][/\ \A t \in Threads :
            /\ threads[t].pc # "refresh" => threads[t].pending = {}
            /\ threads'[t].pc # "refresh" => threads'[t].pending = {}
            /\ (threads[t].pc = "refresh" /\ threads'[t] # threads[t]) =>
                  \E n \in threads[t].pending :
                     /\ nodes'[n] \in FetchOutcomes(nodes[n])
                     /\ IF threads[t].pending = {n}
                        THEN threads'[t].pc # "refresh"
                        ELSE /\ threads'[t].pc = "refresh"
                             /\ threads'[t].pending = threads[t].pending \ {n}
       /\ \A n \in (DOMAIN nodes) \cap (DOMAIN nodes') :
            Cache(nodes'[n]) # Cache(nodes[n]) =>
               \E t \in Threads : /\ threads[t].pc = "refresh"
                                  /\ n \in threads[t].pending
                                  /\ n \notin threads'[t].pending]_vars

\* C35 witness: a direct refresh_nodes call for both nodes has returned
\* with no fetch outstanding; one node carries the response it applied and
\* the other the error it recorded.
C35_Witness ==
    \E t \in Threads :
        /\ threads[t].pc = "refresh_return"
        /\ threads[t].pending = {}
        /\ threads[t].fetches = [n \in Nodes |-> 1]
        /\ nodes[1].last_refresh_error = "none"
        /\ nodes[1].last_refresh_ts = TimeNow
        /\ nodes[2].last_refresh_error = FetchError
        /\ NodeName(2) \in DOMAIN threads[t].errors

\* ------------------------------------------------------------------------
\* Properties of the indexing, the aggregation and concurrent callers
\* ------------------------------------------------------------------------

\* The lists of a response that hold an entry of the model.
ListsOf(response, id) ==
    {modality \in Modality : Places(response[modality], id) > 0}

\* C36: the cache of a node that has been fetched with success holds, for
\* each model_id of the response it applied last, the first entry of that
\* model_id in the order image, audio, video, text, with the capabilities
\* of its first entry that has any, and as its categories exactly the lists
\* in which the model_id occurred, which are never none.
C36_IndexKeepsFirstOccurrence ==
    \A n \in Nodes :
        nodes[n].last_response # <<>> =>
           LET response == nodes[n].last_response[1]
           IN  /\ DOMAIN nodes[n].models = ResponseIds(response)
               /\ DOMAIN nodes[n].categories_by_model_id = ResponseIds(response)
               /\ \A id \in ResponseIds(response) :
                     /\ nodes[n].models[id] = FirstOccurrence(response, id)
                     /\ nodes[n].categories_by_model_id[id] = ListsOf(response, id)
                     /\ nodes[n].categories_by_model_id[id] # {}

\* C36 witness: models() has fetched a node whose response lists m1 under
\* image without capabilities and under text with capabilities and other
\* fields; the cache has the image entry with the capabilities of the text
\* entry, under both categories.
C36_Witness ==
    \E n \in Nodes :
        /\ threads["t1"].fetches[n] = 1
        /\ n \notin threads["t1"].pending
        /\ nodes[n].last_response # <<>>
        /\ LET response == nodes[n].last_response[1]
           IN  /\ Len(response.image) = 1 /\ Len(response.text) = 1
               /\ response.image[1].model_id = "m1"
               /\ response.text[1].model_id = "m1"
               /\ response.image[1].capabilities = <<>>
               /\ response.text[1].capabilities # <<>>
               /\ response.text[1].allocation_status
                     # response.image[1].allocation_status
               /\ nodes[n].models["m1"].allocation_status
                     = response.image[1].allocation_status
               /\ nodes[n].models["m1"].capabilities = response.text[1].capabilities
               /\ nodes[n].categories_by_model_id["m1"] = {IMAGE, TEXT}

\* C37: the aggregation step of models() changes no field of any node, so
\* every score is as before and the response it returns is the aggregation
\* of the caches as they still are after it: aggregating them again gives
\* the same response.
C37_AggregationLeavesCaches ==
    [][\A t \in Threads : CombineStep(t) =>
          /\ nodes' = nodes
          /\ \A n \in Nodes, m \in ModelIds :
                _node_score(nodes'[n], weight[n], m) = Score(n, m)
          /\ threads'[t].result = <<_combined_models_response(nodes')>>]_vars

\* C37 witness: models() is about to return an entry for m1 whose
\* active_requests is the sum over both nodes and larger than either
\* node's, and both caches are still the indexing of what was fetched.
C37_Witness ==
    \E t \in Threads :
        /\ threads[t].pc = "models_return"
        /\ threads[t].fetches = [n \in Nodes |-> 1]
        /\ \A n \in Nodes :
              /\ nodes[n].last_response # <<>>
              /\ nodes[n].models = _index_models(nodes[n].last_response[1]).models
              /\ "m1" \in DOMAIN nodes[n].models
              /\ nodes[n].models["m1"].active_requests > 0
        /\ \E e \in ResultEntries(threads[t].result[1]) :
              /\ e.model_id = "m1"
              /\ e.active_requests = nodes[1].models["m1"].active_requests
                                        + nodes[2].models["m1"].active_requests

\* The two nodes are alike: same cache, same weight.
TwinNodes ==
    /\ Cache(nodes[1]) = Cache(nodes[2])
    /\ weight[1] = weight[2]

\* Thread t has been given a node by the selector and its operation has not
\* ended.
Routed(t) == threads[t].pc \in {"picked", "invoking"}

\* C38 as claimed: the increment of a dispatch is done by the time the
\* selection of another dispatch takes its final locked step, so under
\* LOCAL_ONLY two calls in progress for one model on twin nodes are never on
\* the same node.
C38_SelectionAndIncrementAtomic ==
    [][/\ \A t \in Threads, u \in Threads :
            (PickStep(t) /\ u # t) => threads[u].pc # "picked"
       /\ \A t \in Threads, u \in Threads :
            (/\ mode = LOCAL_ONLY
             /\ TwinNodes
             /\ t # u
             /\ Routed(t) /\ Routed(u)
             /\ threads[t].model_id = threads[u].model_id)
               => threads[t].node # threads[u].node]_vars

\* C38: the scores of a selection include the increment of every dispatch
\* that has performed it before the selection's final locked step: under
\* LOCAL_ONLY, a call for a model whose final step comes while another
\* call for that model is being served by one of two twin nodes, the other
\* node having nothing in flight, is not routed to the serving node.
C38_IncrementSeenBySelection ==
    [][\A t \in Threads, u \in Threads :
          (/\ PickStep(t)
           /\ mode = LOCAL_ONLY
           /\ TwinNodes
           /\ u # t
           /\ threads[u].pc = "invoking"
           /\ threads[u].model_id = threads[t].model_id
           /\ \A k \in Nodes \ {threads[u].node} :
                 nodes[k].local_inflight_total = 0)
             => threads'[t].node # threads[u].node]_vars

\* C38 witness: under LOCAL_ONLY, with twin nodes, one call for m1 is being
\* served by the first node and the other call for m1 has been routed to
\* the second.
C38_Witness ==
    /\ mode = LOCAL_ONLY
    /\ TwinNodes
    /\ threads["t1"].pc = "invoking" /\ threads["t1"].node = 1
    /\ threads["t2"].pc = "picked" /\ threads["t2"].node = 2
    /\ threads["t1"].model_id = "m1" /\ threads["t2"].model_id = "m1"
    /\ nodes[1].local_inflight_total = 1
    /\ nodes[2].local_inflight_total = 0

\* The refresh_nodes call of thread t has fetched node n with success and
\* has applied the response.
AppliedResponse(t, n) ==
    /\ threads[t].pc \in {"refresh", "refresh_return"}
    /\ n \in DOMAIN threads[t].answered
    /\ n \notin threads[t].pending
    /\ threads[t].answered[n].outcome # <<>>

\* C39 as claimed: when two running refresh_nodes calls have both applied
\* their response for a node, the node's cache is the response that the
\* backend gave last.
C39_NewestResponseWins ==
    \A t \in Threads, u \in Threads, n \in Nodes :
        (/\ t # u
         /\ AppliedResponse(t, n) /\ AppliedResponse(u, n)
         /\ threads[t].answered[n].serial > threads[u].answered[n].serial)
           => nodes[n].last_response = threads[t].answered[n].outcome

\* ------------------------------------------------------------------------
\* Properties of the lock
\* ------------------------------------------------------------------------

\* Thread t is inside a call of image, chat, audio, models or refresh_nodes,
\* or in the release of counters that follows the operation.
InCall(t) == threads[t].pc # "idle"

\* C40: at most one thread owns the lock, a thread that owns it is inside a
\* locked block and never at the entry of one, a thread outside its calls
\* does not own it, and under fair scheduling every call that has started
\* ends, returning or raising.
C40_DeadlockFreeProgress ==
    /\ [](\A t \in Threads :
            /\ threads[t].holds => threads[t].pc \notin LockPoints
            /\ threads[t].holds => \A u \in Threads \ {t} : ~threads[u].holds
            /\ threads[t].pc = "idle" => ~threads[t].holds)
    /\ \A t \in Threads : InCall(t) ~> ~InCall(t)

\* C40 witness: one thread owns the lock inside the final block of the
\* selector while the other, in refresh_nodes with a fetch still running,
\* waits to enter the block that applies a response.
C40_Witness ==
    /\ threads["t1"].pc = "in_282" /\ threads["t1"].holds
    /\ threads["t2"].pc = "refresh_218" /\ ~threads["t2"].holds
    /\ Cardinality(threads["t2"].pending) = 2

====
